---------------------------- MODULE Spec2Model ----------------------------
(***************************************************************************)
(* TCLI (src/src/main.cpp): the directory enumerator enumerateDirectories, *)
(* the flat lister listGlobalRecursive, their helpers combineUrl,          *)
(* extractLinks and httpGet, and the enum and ld global commands that      *)
(* start them.                                                             *)
(*                                                                         *)
(* Strings that the code takes apart (URLs, links, directory names) are    *)
(* sequences of one-character strings.  A response body is a sequence of   *)
(* elements (anchor, title, text, meta refresh), each with its length in   *)
(* bytes.  Every std::async task is a process of the model: a call of      *)
(* enumerateDirectories is named by the path of links that leads to it     *)
(* from the root call, a classification task by its call and its           *)
(* directory name.                                                         *)
(***************************************************************************)
EXTENDS Integers, Sequences, FiniteSets, TLC

(***************************************************************************)
(* Bounds of the model.                                                    *)
(***************************************************************************)
\* how many names of commonDirs the model probes (the code probes all 32)
DictSize == 2
\* how many enum and ld global commands the user types in one process
MaxRuns == 2
\* how many elements the documents given to extractLinks have at most
MaxElems == 3

(***************************************************************************)
(* Strings.                                                                *)
(***************************************************************************)
HTTP == <<"h", "t", "t", "p", ":", "/", "/">>
HTTPS == <<"h", "t", "t", "p", "s", ":", "/", "/">>
FakePrefix == <<"_", "_", "t", "c", "l", "i", "_", "f", "a", "k", "e", "4", "0", "4", "_", "_">>
Slash == <<"/">>
DotSlash == <<".", "/">>
DotDotSlash == <<".", ".", "/">>

startsWith(str, prefix) ==
  Len(str) >= Len(prefix) /\ SubSeq(str, 1, Len(prefix)) = prefix

endsWith(str, suffix) ==
  Len(str) >= Len(suffix)
    /\ SubSeq(str, Len(str) - Len(suffix) + 1, Len(str)) = suffix

\* str.find(sub) != npos
Contains(str, sub) ==
  \E i \in 1..(Len(str) - Len(sub) + 1) : SubSeq(str, i, i + Len(sub) - 1) = sub

\* a regex that never matches
DomainMatchNone(b) == <<>>
\* the match of ^https?://[^/]+ in b, or <<>> when the regex does not match
DomainMatch(b) ==
  LET scheme == IF startsWith(b, HTTP) THEN HTTP
                ELSE IF startsWith(b, HTTPS) THEN HTTPS ELSE <<>>
      from == Len(scheme) + 1
      stops == {i \in from..Len(b) : b[i] = "/"}
      last == IF stops = {} THEN Len(b)
              ELSE (CHOOSE i \in stops : \A j \in stops : i <= j) - 1
  IN IF scheme = <<>> \/ last < from THEN <<>> ELSE SubSeq(b, 1, last)

\* a resolver that strips the slash of the base before it looks at the link
combineUrlStripsAlways(base, relative) ==
  LET b == IF base # <<>> /\ base[Len(base)] = "/"
           THEN SubSeq(base, 1, Len(base) - 1) ELSE base
  IN IF relative = <<>> THEN b
     ELSE IF startsWith(relative, HTTP) \/ startsWith(relative, HTTPS) THEN relative
     ELSE IF relative[1] = "/"
          THEN IF DomainMatch(b) # <<>> THEN DomainMatch(b) \o relative
               ELSE b \o relative
          ELSE b \o Slash \o relative

\* a resolver that joins an absolute link to the base
combineUrlJoinsAbsolute(base, relative) ==
  IF relative = <<>> THEN base
  ELSE LET b == IF base # <<>> /\ base[Len(base)] = "/"
                THEN SubSeq(base, 1, Len(base) - 1) ELSE base
       IN IF relative[1] = "/"
          THEN IF DomainMatch(b) # <<>> THEN DomainMatch(b) \o relative
               ELSE b \o relative
          ELSE b \o Slash \o relative

\* a resolver that keeps the slash of the base
combineUrlKeepsSlash(base, relative) ==
  IF relative = <<>> THEN base
  ELSE IF startsWith(relative, HTTP) \/ startsWith(relative, HTTPS) THEN relative
  ELSE IF relative[1] = "/"
       THEN IF DomainMatch(base) # <<>> THEN DomainMatch(base) \o relative
            ELSE base \o relative
       ELSE base \o Slash \o relative

combineUrl(base, relative) ==
  IF relative = <<>> THEN base
  ELSE IF startsWith(relative, HTTP) \/ startsWith(relative, HTTPS) THEN relative
  ELSE LET b == IF base # <<>> /\ base[Len(base)] = "/"
                THEN SubSeq(base, 1, Len(base) - 1) ELSE base
       IN IF relative[1] = "/"
          THEN IF DomainMatch(b) # <<>> THEN DomainMatch(b) \o relative
               ELSE b \o relative
          ELSE b \o Slash \o relative

\* std::to_string of the small numbers the model draws
to_string(n) ==
  <<CASE n = 0 -> "0" [] n = 1 -> "1" [] n = 2 -> "2" [] n = 3 -> "3"
      [] n = 4 -> "4" [] n = 5 -> "5" [] n = 6 -> "6" [] n = 7 -> "7"
      [] n = 8 -> "8" [] OTHER -> "9">>

\* the value of a decimal digit
DigitVal ==
  ("0" :> 0) @@ ("1" :> 1) @@ ("2" :> 2) @@ ("3" :> 3) @@ ("4" :> 4)
    @@ ("5" :> 5) @@ ("6" :> 6) @@ ("7" :> 7) @@ ("8" :> 8) @@ ("9" :> 9)

\* the largest int
INT_MAX == 2147483647

\* the digits of INT_MAX + 1
IntMin == <<"2", "1", "4", "7", "4", "8", "3", "6", "4", "8">>

\* std::stoi(str): leading blanks, a sign, then digits up to the first other
\* character; it throws std::invalid_argument when there is no digit and
\* std::out_of_range when the number is no int
stoi(str) ==
  LET n == Len(str)
      start == CHOOSE i \in 1..(n + 1) :
                 /\ i = n + 1 \/ str[i] # " "
                 /\ \A j \in 1..(i - 1) : str[j] = " "
      signed == start <= n /\ str[start] \in {"-", "+"}
      first == IF signed THEN start + 1 ELSE start
      stop == CHOOSE i \in first..(n + 1) :
                /\ i = n + 1 \/ str[i] \notin DOMAIN DigitVal
                /\ \A j \in first..(i - 1) : str[j] \in DOMAIN DigitVal
      \* the number read up to the digit k, -1 once it is larger than INT_MAX
      Next_(v, d) == IF v = -1 \/ v > (INT_MAX - d) \div 10 THEN -1 ELSE 10 * v + d
      Val[k \in (first - 1)..(stop - 1)] ==
        IF k = first - 1 THEN 0 ELSE Next_(Val[k - 1], DigitVal[str[k]])
      negative == signed /\ str[start] = "-"
      digits == SubSeq(str, first, stop - 1)
      \* without its leading zeros
      zeros == Cardinality({i \in 1..Len(digits) : \A j \in 1..i : digits[j] = "0"})
  IN IF stop = first THEN [thrown |-> "invalid_argument", value |-> 0]
     ELSE IF negative /\ SubSeq(digits, zeros + 1, Len(digits)) = IntMin
     THEN [thrown |-> "", value |-> (0 - INT_MAX) - 1]
     ELSE IF Val[stop - 1] = -1 THEN [thrown |-> "out_of_range", value |-> 0]
     ELSE [thrown |-> "", value |-> IF negative THEN 0 - Val[stop - 1] ELSE Val[stop - 1]]

commonDirs ==
  << <<"a", "d", "m", "i", "n", "/">>,
     <<"p", "r", "i", "v", "a", "t", "e", "/">>,
     <<"s", "e", "c", "r", "e", "t", "/">>,
     <<"h", "i", "d", "d", "e", "n", "/">>,
     <<"c", "o", "n", "f", "i", "g", "/">>,
     <<"b", "a", "c", "k", "u", "p", "/">>,
     <<"d", "a", "t", "a", "/">>,
     <<"u", "p", "l", "o", "a", "d", "s", "/">>,
     <<"f", "i", "l", "e", "s", "/">>,
     <<"t", "m", "p", "/">>,
     <<"t", "e", "s", "t", "/">>,
     <<"d", "e", "v", "/">>,
     <<"l", "o", "g", "s", "/">>,
     <<"b", "i", "n", "/">>,
     <<"c", "g", "i", "-", "b", "i", "n", "/">>,
     <<".", "g", "i", "t", "/">>,
     <<".", "s", "v", "n", "/">>,
     <<".", "e", "n", "v", "/">>,
     <<".", "h", "t", "a", "c", "c", "e", "s", "s">>,
     <<".", "h", "t", "p", "a", "s", "s", "w", "d">>,
     <<"d", "b", "/">>,
     <<"d", "b", "_", "b", "a", "c", "k", "u", "p", "/">>,
     <<"o", "l", "d", "/">>,
     <<"n", "e", "w", "/">>,
     <<"s", "t", "a", "g", "i", "n", "g", "/">>,
     <<"b", "e", "t", "a", "/">>,
     <<"a", "l", "p", "h", "a", "/">>,
     <<"a", "p", "i", "/">>,
     <<"a", "s", "s", "e", "t", "s", "/">>,
     <<"i", "m", "a", "g", "e", "s", "/">>,
     <<"c", "s", "s", "/">>,
     <<"j", "s", "/">> >>

\* the names the model probes: the first DictSize names of commonDirs
Dict == SubSeq(commonDirs, 1, IF DictSize < Len(commonDirs) THEN DictSize ELSE Len(commonDirs))

(***************************************************************************)
(* Response bodies.                                                        *)
(***************************************************************************)
\* <a href="h">, <title>t</title>, the words t, <meta http-equiv="refresh" ... u>
Anchor(h) == [kind |-> "a", href |-> h, text |-> <<>>, size |-> 20]
Title(t) == [kind |-> "title", href |-> <<>>, text |-> t, size |-> 30]
Text(t, n) == [kind |-> "text", href |-> <<>>, text |-> t, size |-> n]
Refresh(u) == [kind |-> "refresh", href |-> u, text |-> <<>>, size |-> 60]

\* the words of a body, as find() sees them
Words(body) ==
  LET W[k \in 0..Len(body)] ==
        IF k = 0 THEN <<>>
        ELSE W[k - 1] \o (IF body[k].kind = "title"
                          THEN <<"<title>">> \o body[k].text \o <<"</title>">>
                          ELSE IF body[k].kind = "text" THEN body[k].text
                          ELSE <<"<", body[k].kind, ">">>)
  IN W[Len(body)]

\* the number of bytes kept of a body as its signature
SigLen == 512

\* the bytes of body before its element i
BytesBefore(body, i) ==
  LET F[k \in 0..Len(body)] == IF k = 0 THEN 0 ELSE F[k - 1] + body[k].size
  IN F[i - 1]

\* body.substr(0, 512): the elements that begin in the first 512 bytes, each
\* with the number of its bytes that lie there
Substr512(body) ==
  LET n == Cardinality({i \in 1..Len(body) : BytesBefore(body, i) < SigLen})
  IN [i \in 1..n |->
        [elem |-> body[i],
         bytes |-> IF BytesBefore(body, i) + body[i].size <= SigLen
                   THEN body[i].size ELSE SigLen - BytesBefore(body, i)]]

\* an extractor that returns a link once
extractLinksOnce(html) ==
  LET anchors == SelectSeq(html, LAMBDA e : e.kind = "a")
      F[k \in 0..Len(anchors)] ==
        IF k = 0 THEN <<>>
        ELSE IF \E j \in 1..(k - 1) : anchors[j].href = anchors[k].href
             THEN F[k - 1] ELSE Append(F[k - 1], anchors[k].href)
  IN F[Len(anchors)]
\* extractLinks: the href of every anchor, in document order
extractLinks(html) ==
  LET anchors == SelectSeq(html, LAMBDA e : e.kind = "a")
  IN [i \in 1..Len(anchors) |-> anchors[i].href]


(***************************************************************************)
(* The line editor: tab completion (lines 203-368) and one turn of the key *)
(* loop of readLineWithArrows (lines 898-1037).  A line is a sequence of   *)
(* characters, a key is its code.                                          *)
(***************************************************************************)
\* lines 204-207
mainCommands ==
  <<<<"h", "e", "l", "p">>,
    <<"q", "u", "i", "t">>,
    <<"e", "x", "i", "t">>,
    <<"c", "l", "r">>,
    <<"c", "l", "e", "a", "r">>,
    <<"r", "l">>,
    <<"r", "e", "l", "o", "a", "d">>,
    <<"t", "c", "l", "i">>,
    <<"c", "o", "n", "n", "e", "c", "t">>,
    <<"l", "d">>,
    <<"e", "n", "u", "m">>,
    <<"b", "r", "e", "a", "k">>,
    <<"s", "c", "a", "n">>,
    <<"i", "n", "j", "e", "c", "t">>,
    <<"a", "u", "t", "h", "_", "b", "y", "p", "a", "s", "s">>,
    <<"s", "p", "o", "o", "f">>,
    <<"s", "e", "s", "s", "i", "o", "n">>,
    <<"h", "i", "s", "t", "o", "r", "y">>,
    <<"p", "a", "y", "l", "o", "a", "d", "_", "g", "e", "n">>,
    <<"c", "o", "n", "f", "i", "g">>,
    <<"s", "e", "t">>>>

\* lines 208-220: command -> subcommands
subCommands ==
  (<<"t", "c", "l", "i">> :> <<<<"s", "e", "t", "u", "p">>>>)
    @@ (<<"c", "o", "n", "n", "e", "c", "t">> :> <<<<"l", "o", "c", "a", "l">>, <<"g", "l", "o", "b", "a", "l">>>>)
    @@ (<<"l", "d">> :> <<<<"l", "o", "c", "a", "l">>, <<"g", "l", "o", "b", "a", "l">>>>)
    @@ (<<"b", "r", "e", "a", "k">> :> <<<<"l", "o", "c", "a", "l">>, <<"g", "l", "o", "b", "a", "l">>>>)
    @@ (<<"s", "e", "s", "s", "i", "o", "n">> :> <<<<"l", "i", "s", "t">>, <<"k", "i", "l", "l">>, <<"r", "e", "s", "u", "m", "e">>>>)
    @@ (<<"h", "i", "s", "t", "o", "r", "y">> :> <<<<"c", "l", "e", "a", "r">>>>)
    @@ (<<"p", "a", "y", "l", "o", "a", "d", "_", "g", "e", "n">> :> <<<<"r", "e", "v", "e", "r", "s", "e", "_", "s", "h", "e", "l", "l">>, <<"k", "e", "y", "l", "o", "g", "g", "e", "r">>>>)
    @@ (<<"c", "o", "n", "f", "i", "g">> :> <<<<"s", "h", "o", "w">>, <<"s", "e", "t">>>>)
    @@ (<<"s", "p", "o", "o", "f">> :> <<<<"m", "a", "c">>, <<"i", "p">>, <<"d", "n", "s">>, <<"u", "s", "e", "r", "-", "a", "g", "e", "n", "t">>>>)
    @@ (<<"i", "n", "j", "e", "c", "t">> :> <<<<"-", "-", "s", "q", "l">>, <<"-", "-", "x", "s", "s">>, <<"-", "-", "c", "m", "d">>>>)
    @@ (<<"s", "e", "t">> :> <<>>)

\* lines 221-223
connectSubSub == <<<<"h", "t", "t", "p">>, <<"h", "t", "t", "p", "s">>>>

Space == " "
global == <<"g", "l", "o", "b", "a", "l">>
connect == <<"c", "o", "n", "n", "e", "c", "t">>
inject == <<"i", "n", "j", "e", "c", "t">>

\* one character of splitInput: acc is <<the words that ended, the word
\* being read>>
SplitStep(acc, ch) ==
  IF ch = Space
  THEN IF acc[2] = <<>> THEN acc ELSE <<Append(acc[1], acc[2]), <<>>>>
  ELSE <<acc[1], Append(acc[2], ch)>>

\* splitInput (lines 226-232): the words of the line between blanks
splitInput(line) ==
  LET F[k \in 0..Len(line)] ==
        IF k = 0 THEN <<<<>>, <<>>>> ELSE SplitStep(F[k - 1], line[k])
      last == F[Len(line)]
  IN IF last[2] = <<>> THEN last[1] ELSE Append(last[1], last[2])

\* the members of words that begin with token (s.find(token) == 0)
Matches(words, token) == SelectSeq(words, LAMBDA w : startsWith(w, token))

\* getCompletions (lines 248-368)
getCompletions(buffer) ==
  LET tokens == splitInput(buffer)
  IN IF tokens = <<>> THEN mainCommands
     ELSE IF Len(tokens) = 1 THEN Matches(mainCommands, tokens[1])
     ELSE IF tokens[1] \in DOMAIN subCommands /\ Len(tokens) = 2
     THEN IF tokens[1] = connect /\ tokens[2] = global THEN connectSubSub
          ELSE Matches(subCommands[tokens[1]], tokens[2])
     ELSE IF tokens[1] = connect /\ Len(tokens) = 3 /\ tokens[2] = global
     THEN Matches(connectSubSub, tokens[3])
     ELSE IF tokens[1] = inject /\ Len(tokens) = 3
     THEN Matches(subCommands[inject], tokens[3])
     ELSE <<>>

\* the part of a line after its last blank (lines 989-991, 1002-1003)
LastToken(prefix) ==
  LET blanks == {i \in 1..Len(prefix) : prefix[i] = Space}
  IN IF blanks = {} THEN prefix
     ELSE SubSeq(prefix, (CHOOSE i \in blanks : \A j \in blanks : j <= i) + 1,
                 Len(prefix))

\* lines 1006-1008: common cut where it stops agreeing with s, looking from
\* the end of the token on; a token longer than common leaves it whole
CommonWith(common, s, n) ==
  LET agree == {j \in n..Len(common) :
                  j <= Len(s) /\ \A i \in (n + 1)..j : common[i] = s[i]}
  IN IF agree = {} THEN common
     ELSE SubSeq(common, 1, CHOOSE j \in agree : \A i \in agree : i <= j)

\* lines 1004-1009: the longest common beginning of the completions
CommonPrefix(completions, token) ==
  LET F[k \in 0..Len(completions)] ==
        IF k = 0 THEN completions[1]
        ELSE CommonWith(F[k - 1], completions[k], Len(token))
  IN F[Len(completions)]

\* the state of the editor: the line, the cursor, whether the line was
\* returned, whether the bell rang, the completions that were listed
Editor(buffer, cursor) ==
  [buffer |-> buffer, cursor |-> cursor, returned |-> FALSE, bell |-> FALSE,
   listed |-> <<>>]

\* buffer.insert(cursor, toInsert); cursor += toInsert.size()
InsertAt(ed, toInsert) ==
  [ed EXCEPT !.buffer = SubSeq(ed.buffer, 1, ed.cursor) \o toInsert
                          \o SubSeq(ed.buffer, ed.cursor + 1, Len(ed.buffer)),
             !.cursor = ed.cursor + Len(toInsert)]

\* lines 979-1028: the body of the Tab branch
Complete(ed) ==
  LET prefix == SubSeq(ed.buffer, 1, ed.cursor)
      completions == getCompletions(prefix)
      token == LastToken(prefix)
  IN IF completions = <<>> THEN [ed EXCEPT !.bell = TRUE]
     ELSE IF Len(completions) = 1
     THEN InsertAt(ed, SubSeq(completions[1], Len(token) + 1, Len(completions[1])))
     ELSE LET common == CommonPrefix(completions, token)
          IN IF Len(common) > Len(token)
             THEN InsertAt(ed, SubSeq(common, Len(token) + 1, Len(common)))
             ELSE [ed EXCEPT !.listed = completions]

\* the printable characters the keys of the model stand for
Chars == (32 :> " ") @@ (101 :> "e") @@ (108 :> "l") @@ (120 :> "x")
isprint(c) == c \in DOMAIN Chars

\* one turn of the loop at lines 898-1037 for the key c, followed by c1 and
\* c2 when c begins an escape sequence; the history is empty
readKey(ed, c, c1, c2) ==
  IF c = 10 \/ c = 13 THEN [ed EXCEPT !.returned = TRUE]
  ELSE IF c = 127 \/ c = 8
  THEN IF ed.cursor > 0
       THEN [ed EXCEPT !.buffer = SubSeq(ed.buffer, 1, ed.cursor - 1)
                                    \o SubSeq(ed.buffer, ed.cursor + 1, Len(ed.buffer)),
                       !.cursor = ed.cursor - 1]
       ELSE ed
  ELSE IF c = 27
  THEN IF c1 = 91
       THEN IF c2 = 68 /\ ed.cursor > 0 THEN [ed EXCEPT !.cursor = ed.cursor - 1]
            ELSE IF c2 = 67 /\ ed.cursor < Len(ed.buffer)
            THEN [ed EXCEPT !.cursor = ed.cursor + 1]
            ELSE ed
       \* line 978: the Tab branch hangs below the test c == 27
       ELSE IF c = 9 THEN Complete(ed)
       ELSE ed
  ELSE IF isprint(c) THEN InsertAt(ed, <<Chars[c]>>)
  ELSE ed

(***************************************************************************)
(* The HTTP servers the enumerator is run against.  A response is a status *)
(* code and a body; a request that fails or times out gives status "000"   *)
(* and an empty body.                                                      *)
(***************************************************************************)
RootUrl == HTTP \o <<"h">>
NotConnected == <<"n", "/", "a">>
docs == <<"d", "o", "c", "s", "/">>
ztxt == <<"z", ".", "t", "x", "t">>
adir == <<"a", "/">>
xabs == <<"/", "x", "/">>
ydir == <<"y", "/">>

Ok(body) == [status |-> "200", body |-> body]
NotFound(body) == [status |-> "404", body |-> body]
NoAnswer == [status |-> "000", body |-> <<>>]

NotFoundPage == <<Title(<<"404", "Not", "Found">>), Text(<<"nothing", "here">>, 100)>>
\* a 404 page longer than a signature that sends the browser back to the root
SelfRefreshPage ==
  <<Title(<<"404", "Not", "Found">>), Refresh(RootUrl), Text(<<"nothing", "here">>, 600)>>
ListingPage ==
  <<Title(<<"Index", "of", "/">>), Text(<<"Parent", "Directory">>, 30), Anchor(DotDotSlash)>>

\* a small site: two linked directories (one of them a dictionary name, and
\* not answering), an unlinked admin/ with a directory listing, below admin/
\* a 404 page for private/ and no answer for anything else, a 404 page for
\* everything else
SiteServer(url) ==
  CASE url = RootUrl ->
         {Ok(<<Title(<<"Home">>), Anchor(docs), Anchor(Dict[2]), Anchor(ztxt),
               Anchor(DotDotSlash)>>)}
    [] url = combineUrl(RootUrl, docs) -> {Ok(<<Title(<<"Docs">>), Text(<<"hello">>, 50)>>)}
    [] url = combineUrl(RootUrl, Dict[2]) -> {NoAnswer}
    [] url = combineUrl(RootUrl, Dict[1]) -> {Ok(ListingPage)}
    [] OTHER -> IF /\ startsWith(url, combineUrl(RootUrl, Dict[1]))
                   /\ url # combineUrl(combineUrl(RootUrl, Dict[1]), Dict[2])
                THEN {NotFound(<<>>)} ELSE {NotFound(NotFoundPage)}

\* one directory, /x/, linked from the root and from a/; nothing else
\* answers below a/ and below /x/y/, every other URL gives the long 404
\* page, and admin/ below /x/ gives it with a tail
SharedServer(url) ==
  CASE url = RootUrl -> {Ok(<<Anchor(adir), Anchor(xabs)>>)}
    [] url = combineUrl(RootUrl, adir) -> {Ok(<<Anchor(xabs)>>)}
    [] url = combineUrl(RootUrl, xabs) -> {Ok(<<Anchor(ydir)>>)}
    [] url = combineUrl(combineUrl(RootUrl, xabs), ydir) -> {Ok(<<Text(<<"y">>, 10)>>)}
    [] url = combineUrl(combineUrl(RootUrl, xabs), Dict[1]) ->
         {NotFound(SelfRefreshPage \o <<Text(<<"Index", "of", "nothing">>, 40)>>)}
    [] OTHER -> IF \/ startsWith(url, combineUrl(RootUrl, adir))
                   \/ startsWith(url, combineUrl(combineUrl(RootUrl, xabs), ydir))
                THEN {NoAnswer} ELSE {NotFound(SelfRefreshPage)}

\* every page links to the host root and to a/ below itself: link cycles and
\* an unbounded chain a/a/a/...
LoopServer(url) ==
  IF Contains(url, FakePrefix) THEN {NotFound(<<>>)}
  ELSE IF url = RootUrl \/ url = RootUrl \o Slash \/ endsWith(url, Slash \o adir)
  THEN {Ok(<<Anchor(Slash), Anchor(adir)>>)}
  ELSE {NotFound(<<>>)}

\* a page without links and two unlinked directories with a listing, both
\* of them dictionary names
TwinServer(url) ==
  CASE url = RootUrl -> {Ok(<<Title(<<"Home">>), Text(<<"hello">>, 50)>>)}
    [] url = combineUrl(RootUrl, Dict[1]) -> {Ok(ListingPage)}
    [] url = combineUrl(RootUrl, Dict[2]) -> {Ok(ListingPage)}
    [] OTHER -> {NotFound(NotFoundPage)}

\* a page that links to a directory of another host, which answers, and a
\* candidate whose error page sends the browser to the other host and links
\* back to a page of this one
OtherHost == HTTP \o <<"o">>
ddir == <<"d", "/">>
OffsiteServer(url) ==
  CASE url = RootUrl -> {Ok(<<Title(<<"Home">>), Anchor(OtherHost \o Slash \o ddir)>>)}
    [] url = OtherHost \o Slash \o ddir -> {Ok(<<Text(<<"hello">>, 50)>>)}
    [] url = combineUrl(RootUrl, Dict[1]) ->
         {NotFound(<<Refresh(OtherHost), Anchor(RootUrl \o Slash \o docs)>>)}
    [] OTHER -> IF startsWith(url, OtherHost) THEN {NoAnswer}
                ELSE {NotFound(NotFoundPage)}

\* the root answers or times out; nothing else answers
FlakyServer(url) ==
  IF url = RootUrl THEN {Ok(<<Anchor(adir)>>), NoAnswer} ELSE {NoAnswer}

Responses(srv, url) ==
  CASE srv = "site" -> SiteServer(url)
    [] srv = "shared" -> SharedServer(url)
    [] srv = "loop" -> LoopServer(url)
    [] srv = "twin" -> TwinServer(url)
    [] srv = "offsite" -> OffsiteServer(url)
    [] OTHER -> FlakyServer(url)

\* a server that gives every request one possible answer
Deterministic(srv) == srv \in {"site", "shared", "loop", "twin", "offsite"}

(***************************************************************************)
(* The state of the process.                                               *)
(***************************************************************************)
VARIABLES
  config,         \* the config map: gl_path, max_enum_depth, max_list_depth,
                  \* curl_max_time, user_agent
  server,         \* the server behind gl_path
  visited,        \* staticVisited
  notFoundCache,  \* notFoundCache: base URL -> signature
  visMutex,       \* the tasks that hold visMutex
  randCalls,      \* how many times rand() was called
  calls,          \* the calls of enumerateDirectories of the current enum
  probes,         \* the classification tasks of the current enum
  reqs,           \* every HTTP request issued so far
  out,            \* the lines printed so far
  runs,           \* the number of enum and ld global commands so far
  accesses,       \* which task touched which shared object of the current enum
  lists,          \* the calls of listGlobalRecursive of the current ld global
  input,          \* the command typed last, or the arguments of a helper
                  \* function called on its own
  output,         \* what the command reported, or the values the helper
                  \* function returned
  file            \* the config file TCLI

vars == <<config, server, visited, notFoundCache, visMutex, randCalls, calls,
          probes, reqs, out, runs, accesses, lists, input, output, file>>

\* no helper function is called on its own
NoInput == [fn |-> "none"]
\* there is no config file
NoFile == <<>>

RootCall == <<>>
CallTask(c) == <<c, <<>>>>
ProbeTask(c, d) == <<c, d>>

\* the (server, max_enum_depth, max_list_depth) triples a run starts from
Setups ==
  {<<"site", 0, 1>>, <<"site", 1, 1>>, <<"shared", 2, 2>>, <<"loop", 2, 1>>,
   <<"twin", 0, 1>>, <<"offsite", 1, 1>>, <<"flaky", 3, 1>>}

Init ==
  /\ \E s \in Setups, g \in {RootUrl, NotConnected} :
       /\ g = NotConnected => s[1] = "flaky"
       /\ server = s[1]
       /\ config = [gl_path |-> g, max_enum_depth |-> to_string(s[2]),
                    max_list_depth |-> to_string(s[3]),
                    curl_max_time |-> "2", user_agent |-> "Mozilla/5.0"]
  /\ visited = {}
  /\ notFoundCache = <<>>
  /\ visMutex = {}
  /\ randCalls = 0
  /\ calls = <<>>
  /\ probes = <<>>
  /\ reqs = {}
  /\ out = {}
  /\ runs = 0
  /\ accesses = {}
  /\ lists = <<>>
  /\ input = NoInput
  /\ output = {}
  /\ file = NoFile


(***************************************************************************)
(* The classification of a candidate (lines 551-587).                      *)
(***************************************************************************)
dirPatterns ==
  {<<"Index", "of">>, <<"Parent", "Directory">>, <<"<title>", "Index", "of">>,
   <<"Directory", "listing", "for">>, <<"To", "Parent", "Directory">>}

\* the first <title>...</title> of the body, <<>> when there is none
TitleOf(body) ==
  LET titles == SelectSeq(body, LAMBDA e : e.kind = "title")
  IN IF titles = <<>> THEN <<>> ELSE titles[1].text

\* probe.find(baseUrl) != npos
MentionsUrl(body, url) ==
  \E i \in 1..Len(body) : body[i].href # <<>> /\ Contains(body[i].href, url)

\* a comparison that always finds a difference
Not404Always(probe, notFoundSig) == TRUE
\* line 551: probe.substr(0, 512) != notFoundSig
Not404(probe, notFoundSig) == Substr512(probe) # notFoundSig
StatusOk(code) == code = "200" \/ code = "301" \/ code = "302"
LooksLikeDir(probe) == \E pat \in dirPatterns : Contains(Words(probe), pat)
TitleOk(probe) ==
  /\ TitleOf(probe) # <<>>
  /\ ~Contains(TitleOf(probe), <<"404">>)
  /\ ~Contains(TitleOf(probe), <<"Not", "Found">>)
NotRedirect(probe, baseUrl) ==
  ~((\E i \in 1..Len(probe) : probe[i].kind = "refresh") /\ MentionsUrl(probe, baseUrl))

Score(sig) ==
  (IF sig.not404 THEN 1 ELSE 0) + (IF sig.statusOk THEN 1 ELSE 0)
    + (IF sig.looksLikeDir THEN 1 ELSE 0) + (IF sig.titleOk THEN 1 ELSE 0)
    + (IF sig.notRedirect THEN 1 ELSE 0)

Classify(baseUrl, probe, code, notFoundSig) ==
  [not404 |-> Not404(probe, notFoundSig),
   statusOk |-> StatusOk(code),
   looksLikeDir |-> LooksLikeDir(probe),
   titleOk |-> TitleOk(probe),
   notRedirect |-> NotRedirect(probe, baseUrl)]

\* a threshold of one signal
AcceptedAtOne(sig) == Score(sig) >= 1
\* line 588: score >= 2
Accepted(sig) == Score(sig) >= 2

NoSignals ==
  [not404 |-> FALSE, statusOk |-> FALSE, looksLikeDir |-> FALSE,
   titleOk |-> FALSE, notRedirect |-> FALSE]

(***************************************************************************)
(* Requests.  httpGet runs curl with --max-time and -A; the status-code    *)
(* request of a classification task runs curl with neither.                *)
(***************************************************************************)
httpGet(url) ==
  [url |-> url, maxTime |-> config.curl_max_time, ua |-> config.user_agent]

statusRequest(url) == [url |-> url, maxTime |-> "", ua |-> ""]

\* the record of one request: who issued it, in which enum, for which base URL
Request(task, kind, cmd, c) ==
  [run |-> runs, by |-> task, kind |-> kind, url |-> cmd.url,
   base |-> calls[c].url, depth |-> calls[c].depth,
   maxDepth |-> calls[c].maxDepth, maxTime |-> cmd.maxTime, ua |-> cmd.ua]

Line(task, kind, arg, sig) ==
  [run |-> runs, by |-> task, kind |-> kind, arg |-> arg, sig |-> sig]

Access(obj, c, task, locked) ==
  [obj |-> obj, owner |-> c, by |-> task, locked |-> locked]

(***************************************************************************)
(* enumerateDirectories.                                                   *)
(***************************************************************************)
Range(f) == {f[i] : i \in DOMAIN f}

IsDirLink(link) ==
  link # DotDotSlash /\ link # DotSlash /\ link # <<>> /\ link[Len(link)] = "/"

\* lines 536-540: the links of the page that name a directory
KnownDirs(html) == {l \in Range(extractLinks(html)) : IsDirLink(l)}

\* line 502 and the parameters of a call; an exception of std::stoi is caught
\* nowhere and ends the process
NewCall(url, depth, maxDepth) ==
  [url |-> url, depth |-> depth,
   maxDepth |-> IF maxDepth = -1 THEN stoi(config.max_enum_depth).value ELSE maxDepth,
   pc |-> IF maxDepth = -1 /\ stoi(config.max_enum_depth).thrown # ""
          THEN "uncaught" ELSE "guard_lock",
   admitted |-> "pending", html |-> <<>>,
   notFoundSig |-> <<>>, foundDirs |-> {}, idx |-> 0, foundMutex |-> {}]

NewProbe == [pc |-> "probe", body |-> <<>>, sig |-> NoSignals, score |-> 0]

ProbesOf(c) == {p \in DOMAIN probes : p[1] = c}

RunActive == RootCall \in DOMAIN calls /\ calls[RootCall].pc # "done"

\* an ld global command is running
ListActive == RootCall \in DOMAIN lists /\ lists[RootCall].pc # "done"

\* a lock that excludes nobody
CanLockAlways == TRUE
\* std::unique_lock lock(visMutex): the lock can be taken when nobody holds it
CanLock == visMutex = {}

\* a lock that is never given back
UnlockForgotten(task) == visMutex
\* the end of the block of a std::unique_lock: visMutex is released
Unlock(task) == visMutex \ {task}

\* an empty signature is not kept
CacheStoreNonEmpty(url, sig) ==
  IF sig = <<>> THEN notFoundCache ELSE (url :> sig) @@ notFoundCache
\* a signature that is computed and not kept
CacheStoreDropped(url, sig) == notFoundCache
\* line 532: notFoundCache[baseUrl] = notFoundSig
CacheStore(url, sig) == (url :> sig) @@ notFoundCache

\* a depth bound that is off by one
DepthExceededLate(depth, maxDepth) == depth > maxDepth + 1
\* line 512: depth > maxDepth
DepthExceeded(depth, maxDepth) == depth > maxDepth

\* a barrier that waits for nothing
AllProbesLaunched(c) == TRUE
\* line 602: every future of the classification tasks is ready
AllProbesDone(c) == \A p \in ProbesOf(c) : probes[p].pc = "done"

\* a call that forgets the branches it started
ChildrenNone(c) == {}
\* lines 604-611: the recursive branches a call started
Children(c) ==
  {k \in DOMAIN calls : Len(k) = Len(c) + 1 /\ SubSeq(k, 1, Len(c)) = c}

\* a return that waits for nothing
AllChildrenStarted(c) == TRUE
\* line 612: every future of the recursive branches is ready
AllChildrenDone(c) == \A k \in Children(c) : calls[k].pc = "done"

\* a visited test that never finds the URL
AlreadyVisitedNever(url) == FALSE
\* line 512: visited->count(baseUrl)
AlreadyVisited(url) == url \in visited

\* an insert that is lost
VisitedInsertDropped(url) == visited
\* line 513: visited->insert(baseUrl)
VisitedInsert(url) == visited \cup {url}

\* a page that is never taken for empty
PageEmptyNever(html) == FALSE
\* line 518: html.empty()
PageEmpty(html) == html = <<>>

\* a probe that is never taken for empty
ProbeEmptyNever(probe) == FALSE
\* line 549: probe.empty()
ProbeEmpty(probe) == probe = <<>>

\* a target test that always passes
ConnectedAlways(gl_path) == TRUE
\* lines 664 and 712: config["gl_path"] is not "n/a"
Connected(gl_path) == gl_path # NotConnected

\* an insert that replaces the set
FoundInsertAlone(c, dir) == {dir}
\* line 590: foundDirs.insert(dir)
FoundInsert(c, dir) == calls[c].foundDirs \cup {dir}

\* line 545, foundDirs.count(dir): read without foundMutex.  While a
\* classification task is inside its insert the read races with the write:
\* the search walks a tree that is being relinked and may miss a name that
\* is in the set.  It compares whole names, so it finds no name that is
\* neither in the set nor being inserted.
foundDirsCount(c, dir) ==
  IF \E p \in ProbesOf(c) : probes[p].pc = "inserting"
  THEN {dir \in calls[c].foundDirs, FALSE} ELSE {dir \in calls[c].foundDirs}


\* cmdEnum (lines 711-717): the enum command, typed when no enum is running
CmdEnum ==
  /\ ~RunActive /\ ~ListActive
  /\ runs < MaxRuns
  /\ runs' = runs + 1
  /\ accesses' = {}
  /\ probes' = <<>>
  /\ IF ~Connected(config.gl_path)
     THEN /\ out' = out \cup {[run |-> runs', by |-> CallTask(RootCall),
                               kind |-> "NotConnected", arg |-> <<"enum">>,
                               sig |-> NoSignals]}
          /\ calls' = <<>>
     ELSE /\ calls' = [c \in {RootCall} |-> NewCall(config.gl_path, 0, -1)]
          /\ out' = out
  /\ lists' = <<>>
  /\ input' = [fn |-> "enum", args |-> <<>>]
  /\ output' = {}
  /\ UNCHANGED <<file, config, server, visited, notFoundCache, visMutex, randCalls, reqs>>

\* line 511: take visMutex
GuardLock(c) ==
  /\ calls[c].pc = "guard_lock"
  /\ CanLock
  /\ visMutex' = visMutex \cup {CallTask(c)}
  /\ calls' = [calls EXCEPT ![c].pc = "guard_check"]
  /\ UNCHANGED <<file, input, output, lists, config, server, visited, notFoundCache, randCalls, probes,
                 reqs, out, runs, accesses>>

\* line 512: the depth bound and the visited test
GuardCheck(c) ==
  /\ calls[c].pc = "guard_check"
  /\ IF DepthExceeded(calls[c].depth, calls[c].maxDepth)
     THEN /\ calls' = [calls EXCEPT ![c].pc = "done", ![c].admitted = "no"]
          /\ visMutex' = Unlock(CallTask(c))
          /\ accesses' = accesses
     ELSE /\ accesses' = accesses \cup
               {Access("visited", RootCall, CallTask(c), CallTask(c) \in visMutex)}
          /\ IF AlreadyVisited(calls[c].url)
             THEN /\ calls' = [calls EXCEPT ![c].pc = "done", ![c].admitted = "no"]
                  /\ visMutex' = Unlock(CallTask(c))
             ELSE /\ calls' = [calls EXCEPT ![c].pc = "guard_insert"]
                  /\ visMutex' = visMutex
  /\ UNCHANGED <<file, input, output, lists, config, server, visited, notFoundCache, randCalls, probes,
                 reqs, out, runs>>

\* lines 513-514: insert, release visMutex
GuardInsert(c) ==
  /\ calls[c].pc = "guard_insert"
  /\ visited' = VisitedInsert(calls[c].url)
  /\ accesses' = accesses \cup
       {Access("visited", RootCall, CallTask(c), CallTask(c) \in visMutex)}
  /\ visMutex' = Unlock(CallTask(c))
  /\ calls' = [calls EXCEPT ![c].pc = "fetch", ![c].admitted = "yes"]
  /\ UNCHANGED <<file, input, output, lists, config, server, notFoundCache, randCalls, probes, reqs, out, runs>>

\* lines 515-521: print the URL, fetch the page
Fetch(c) ==
  /\ calls[c].pc = "fetch"
  /\ \E resp \in Responses(server, calls[c].url) :
       /\ reqs' = reqs \cup {Request(CallTask(c), "base", httpGet(calls[c].url), c)}
       /\ IF PageEmpty(resp.body)
          THEN /\ calls' = [calls EXCEPT ![c].pc = "done"]
               /\ out' = out \cup
                    {Line(CallTask(c), "Enumerating", calls[c].url, NoSignals),
                     Line(CallTask(c), "NoResponse", <<>>, NoSignals)}
          ELSE /\ calls' = [calls EXCEPT ![c].pc = "base_lock", ![c].html = resp.body]
               /\ out' = out \cup
                    {Line(CallTask(c), "Enumerating", calls[c].url, NoSignals)}
  /\ UNCHANGED <<file, input, output, lists, config, server, visited, notFoundCache, visMutex, randCalls,
                 probes, runs, accesses>>

\* line 526: take visMutex, with a std::unique_lock
BaseLock(c) ==
  /\ calls[c].pc = "base_lock"
  /\ CanLock
  /\ visMutex' = visMutex \cup {CallTask(c)}
  /\ calls' = [calls EXCEPT ![c].pc = "base_lookup"]
  /\ UNCHANGED <<file, input, output, lists, config, server, visited, notFoundCache,
                 randCalls, probes, reqs, out, runs, accesses>>

\* lines 527-529 and 536-540: look the base URL up; on a hit take the cached
\* signature, release the lock and collect the known directories
BaseLookup(c) ==
  /\ calls[c].pc = "base_lookup"
  /\ accesses' = accesses \cup
       {Access("notFoundCache", RootCall, CallTask(c), CallTask(c) \in visMutex)}
  /\ IF calls[c].url \in DOMAIN notFoundCache
     THEN /\ calls' = [calls EXCEPT ![c].pc = "launch",
                                    ![c].notFoundSig = notFoundCache[calls[c].url],
                                    ![c].foundDirs = KnownDirs(calls[c].html),
                                    ![c].idx = 1]
          /\ visMutex' = Unlock(CallTask(c))
     ELSE /\ calls' = [calls EXCEPT ![c].pc = "base_probe"]
          /\ visMutex' = visMutex
  /\ UNCHANGED <<file, input, output, lists, config, server, visited, notFoundCache,
                 randCalls, probes, reqs, out, runs>>

\* lines 530-540: the miss: fetch a path that does not exist while holding
\* visMutex, keep its first 512 bytes, release the lock, collect the known
\* directories
BaseProbe(c) ==
  /\ calls[c].pc = "base_probe"
  /\ LET fake == combineUrl(calls[c].url, FakePrefix \o to_string(randCalls) \o Slash)
     IN \E resp \in Responses(server, fake) :
          /\ reqs' = reqs \cup {Request(CallTask(c), "baseline", httpGet(fake), c)}
          /\ notFoundCache' = CacheStore(calls[c].url, Substr512(resp.body))
          /\ calls' = [calls EXCEPT ![c].pc = "launch",
                                    ![c].notFoundSig = Substr512(resp.body),
                                    ![c].foundDirs = KnownDirs(calls[c].html),
                                    ![c].idx = 1]
  /\ randCalls' = randCalls + 1
  /\ accesses' = accesses \cup
       {Access("notFoundCache", RootCall, CallTask(c), CallTask(c) \in visMutex)}
  /\ visMutex' = Unlock(CallTask(c))
  /\ UNCHANGED <<file, input, output, lists, config, server, visited, probes, out, runs>>

\* lines 544-601: one turn of the loop over commonDirs
Launch(c) ==
  /\ calls[c].pc = "launch"
  /\ calls[c].idx <= Len(Dict)
  /\ LET dir == Dict[calls[c].idx]
     IN \E known \in foundDirsCount(c, dir) :
          /\ probes' = IF known THEN probes
                       ELSE (ProbeTask(c, dir) :> NewProbe) @@ probes
  /\ calls' = [calls EXCEPT ![c].idx = @ + 1]
  /\ accesses' = accesses \cup
       {Access("foundDirs", c, CallTask(c), CallTask(c) \in calls[c].foundMutex)}
  /\ UNCHANGED <<file, input, output, lists, config, server, visited, notFoundCache, visMutex, randCalls,
                 reqs, out, runs>>

\* lines 602-611: wait for the classification tasks, then print every found
\* directory and start its recursive branch
Barrier(c) ==
  /\ calls[c].pc = "launch"
  /\ calls[c].idx > Len(Dict)
  /\ AllProbesDone(c)
  /\ LET kids == {Append(c, d) : d \in calls[c].foundDirs}
     IN calls' = [k \in DOMAIN calls \cup kids |->
                    IF k \in kids
                    THEN NewCall(combineUrl(calls[c].url, k[Len(k)]),
                                 calls[c].depth + 1, calls[c].maxDepth)
                    ELSE IF k = c THEN [calls[c] EXCEPT !.pc = "join"]
                    ELSE calls[k]]
  /\ out' = out \cup {Line(CallTask(c), "dir", d, NoSignals) : d \in calls[c].foundDirs}
  /\ accesses' = accesses \cup
       {Access("foundDirs", c, CallTask(c), CallTask(c) \in calls[c].foundMutex)}
  /\ UNCHANGED <<file, input, output, lists, config, server, visited, notFoundCache, visMutex, randCalls,
                 probes, reqs, runs>>

\* lines 612-613: wait for the recursive branches, return
Join(c) ==
  /\ calls[c].pc = "join"
  /\ AllChildrenDone(c)
  /\ calls' = [calls EXCEPT ![c].pc = "done"]
  /\ UNCHANGED <<file, input, output, lists, config, server, visited, notFoundCache, visMutex, randCalls,
                 probes, reqs, out, runs, accesses>>

\* lines 547-549: fetch the candidate
ProbeFetch(p) ==
  /\ probes[p].pc = "probe"
  /\ LET tryUrl == combineUrl(calls[p[1]].url, p[2])
     IN \E resp \in Responses(server, tryUrl) :
          /\ reqs' = reqs \cup {Request(p, "probe", httpGet(tryUrl), p[1])}
          /\ probes' = [probes EXCEPT
                          ![p].pc = IF ProbeEmpty(resp.body) THEN "done" ELSE "status",
                          ![p].body = resp.body]
  /\ UNCHANGED <<file, input, output, lists, config, server, visited, notFoundCache, visMutex, randCalls,
                 calls, out, runs, accesses>>

\* lines 551-588: ask for the status code, compute the five signals and the score
ProbeStatus(p) ==
  /\ probes[p].pc = "status"
  /\ LET tryUrl == combineUrl(calls[p[1]].url, p[2])
     IN \E resp \in Responses(server, tryUrl) :
          LET sig == Classify(calls[p[1]].url, probes[p].body, resp.status,
                              calls[p[1]].notFoundSig)
          IN /\ reqs' = reqs \cup {Request(p, "status", statusRequest(tryUrl), p[1])}
             /\ probes' = [probes EXCEPT
                             ![p].pc = IF Accepted(sig) THEN "lock_found" ELSE "done",
                             ![p].sig = sig,
                             ![p].score = Score(sig)]
  /\ UNCHANGED <<file, input, output, lists, config, server, visited, notFoundCache, visMutex, randCalls,
                 calls, out, runs, accesses>>

\* line 589: take foundMutex
ProbeLock(p) ==
  /\ probes[p].pc = "lock_found"
  /\ calls[p[1]].foundMutex = {}
  /\ calls' = [calls EXCEPT ![p[1]].foundMutex = {p}]
  /\ probes' = [probes EXCEPT ![p].pc = "inserting"]
  /\ UNCHANGED <<file, input, output, lists, config, server, visited, notFoundCache, visMutex, randCalls,
                 reqs, out, runs, accesses>>

\* lines 590-599: insert the directory, print its line, release foundMutex
ProbeInsert(p) ==
  /\ probes[p].pc = "inserting"
  /\ calls' = [calls EXCEPT ![p[1]].foundDirs = FoundInsert(p[1], p[2]),
                            ![p[1]].foundMutex = @ \ {p}]
  /\ probes' = [probes EXCEPT ![p].pc = "done"]
  /\ out' = out \cup {Line(p, "OK", p[2], probes[p].sig)}
  /\ accesses' = accesses \cup
       {Access("foundDirs", p[1], p, p \in calls[p[1]].foundMutex)}
  /\ UNCHANGED <<file, input, output, lists, config, server, visited, notFoundCache, visMutex, randCalls,
                 reqs, runs>>

(***************************************************************************)
(* listGlobalRecursive.  A call is named by the positions, in the list of  *)
(* directory links of each page, of the links that lead to it.             *)
(***************************************************************************)
\* lines 631-635: the links that name a directory and those that name a file
Directories(links) == SelectSeq(links, IsDirLink)
Files(links) ==
  SelectSeq(links, LAMBDA l : l # DotDotSlash /\ l # DotSlash /\ l # <<>>
                                /\ l[Len(l)] # "/")

\* line 616 and the parameters of a call; an exception of std::stoi is caught
\* nowhere and ends the process
NewList(url, depth, maxDepth) ==
  [url |-> url, depth |-> depth,
   maxDepth |-> IF maxDepth = -1 THEN stoi(config.max_list_depth).value ELSE maxDepth,
   pc |-> IF maxDepth = -1 /\ stoi(config.max_list_depth).thrown # ""
          THEN "uncaught" ELSE "start"]

\* a lister that asks for the page as a classification task does
ListRequestProbing(c, cmd) ==
  [run |-> runs, by |-> CallTask(c), kind |-> "probe", url |-> cmd.url,
   base |-> lists[c].url, depth |-> lists[c].depth,
   maxDepth |-> lists[c].maxDepth, maxTime |-> cmd.maxTime, ua |-> cmd.ua]
\* line 620: the request of the page
ListRequest(c, cmd) ==
  [run |-> runs, by |-> CallTask(c), kind |-> "list", url |-> cmd.url,
   base |-> lists[c].url, depth |-> lists[c].depth,
   maxDepth |-> lists[c].maxDepth, maxTime |-> cmd.maxTime, ua |-> cmd.ua]

ListChildren(c) ==
  {k \in DOMAIN lists : Len(k) = Len(c) + 1 /\ SubSeq(k, 1, Len(c)) = c}

\* a depth bound that is off by one
ListDepthExceededLate(depth, maxDepth) == depth > maxDepth + 1
\* line 617: depth > maxDepth
ListDepthExceeded(depth, maxDepth) == depth > maxDepth

\* cmdListGlobal (lines 663-669): the ld global command, typed when no
\* command is running
CmdListGlobal ==
  /\ ~RunActive /\ ~ListActive
  /\ runs < MaxRuns
  /\ runs' = runs + 1
  /\ accesses' = {}
  /\ probes' = <<>>
  /\ calls' = <<>>
  /\ IF ~Connected(config.gl_path)
     THEN /\ out' = out \cup {[run |-> runs', by |-> CallTask(RootCall),
                               kind |-> "NotConnected", arg |-> <<"ld", "global">>,
                               sig |-> NoSignals]}
          /\ lists' = <<>>
     ELSE /\ lists' = [c \in {RootCall} |-> NewList(config.gl_path, 0, -1)]
          /\ out' = out
  /\ input' = [fn |-> "ld", args |-> global]
  /\ output' = {}
  /\ UNCHANGED <<file, config, server, visited, notFoundCache, visMutex, randCalls, reqs>>

\* line 617: a call below the depth bound returns at once
ListReturn(c) ==
  /\ lists[c].pc = "start"
  /\ ListDepthExceeded(lists[c].depth, lists[c].maxDepth)
  /\ lists' = [lists EXCEPT ![c].pc = "done"]
  /\ UNCHANGED <<file, input, output, config, server, visited, notFoundCache, visMutex, randCalls,
                 calls, probes, reqs, out, runs, accesses>>

\* lines 618-658: print the URL, fetch the page, print its files and its
\* directories, start one branch for each directory link
ListFetch(c) ==
  /\ lists[c].pc = "start"
  /\ ~ListDepthExceeded(lists[c].depth, lists[c].maxDepth)
  /\ \E resp \in Responses(server, lists[c].url) :
       LET links == extractLinks(resp.body)
           directories == Directories(links)
           files == Files(links)
           kids == {Append(c, i) : i \in 1..Len(directories)}
           listing == Line(CallTask(c), "Listing", lists[c].url, NoSignals)
       IN /\ reqs' = reqs \cup {ListRequest(c, httpGet(lists[c].url))}
          /\ IF PageEmpty(resp.body)
             THEN /\ lists' = [lists EXCEPT ![c].pc = "done"]
                  /\ out' = out \cup
                       {listing, Line(CallTask(c), "ListFailed", <<>>, NoSignals)}
             ELSE IF links = <<>>
             THEN /\ lists' = [lists EXCEPT ![c].pc = "done"]
                  /\ out' = out \cup
                       {listing, Line(CallTask(c), "NoLinks", <<>>, NoSignals)}
             ELSE IF files = <<>> /\ directories = <<>>
             THEN /\ lists' = [lists EXCEPT ![c].pc = "done"]
                  /\ out' = out \cup
                       {listing, Line(CallTask(c), "NoFilesOrDirs", <<>>, NoSignals)}
             ELSE /\ lists' = [k \in DOMAIN lists \cup kids |->
                                 IF k \in kids
                                 THEN NewList(combineUrl(lists[c].url,
                                                         directories[k[Len(k)]]),
                                              lists[c].depth + 1, lists[c].maxDepth)
                                 ELSE IF k = c THEN [lists[c] EXCEPT !.pc = "join"]
                                 ELSE lists[k]]
                  /\ out' = out \cup {listing}
                       \cup {Line(CallTask(c), "file", f, NoSignals) : f \in Range(files)}
                       \cup {Line(CallTask(c), "ldir", d, NoSignals) :
                               d \in Range(directories)}
  /\ UNCHANGED <<file, input, output, config, server, visited, notFoundCache, visMutex, randCalls,
                 calls, probes, runs, accesses>>

\* lines 659-660: wait for the branches, return
ListJoin(c) ==
  /\ lists[c].pc = "join"
  /\ \A k \in ListChildren(c) : lists[k].pc = "done"
  /\ lists' = [lists EXCEPT ![c].pc = "done"]
  /\ UNCHANGED <<file, input, output, config, server, visited, notFoundCache, visMutex, randCalls,
                 calls, probes, reqs, out, runs, accesses>>

(***************************************************************************)
(* The commands that change the configuration: connect global, break       *)
(* global, set, config set and reload.  The command loop reads the next    *)
(* line when the command before it has returned.                           *)
(***************************************************************************)
\* the command loop is at its prompt
Idle == ~RunActive /\ ~ListActive

http == <<"h", "t", "t", "p">>
https == <<"h", "t", "t", "p", "s">>
\* line 410: (https?|HTTPS?)
Protos == {http, https, <<"H", "T", "T", "P">>, <<"H", "T", "T", "P", "S">>}

\* ::tolower on the letters the model types
Lower ==
  ("G" :> "g") @@ ("L" :> "l") @@ ("O" :> "o") @@ ("B" :> "b") @@ ("A" :> "a")
tolower(str) ==
  [i \in 1..Len(str) |-> IF str[i] \in DOMAIN Lower THEN Lower[str[i]] ELSE str[i]]

\* lines 408-421: the URL connect global takes from its argument, <<>> when
\* it takes none: a protocol and a domain between blanks, or a text that
\* begins with http:// or https://
ConnectUrl(url) ==
  LET m == splitInput(url)
  IN IF Len(m) = 2 /\ url[Len(url)] # Space /\ m[1] \in Protos
     THEN m[1] \o <<":", "/", "/">> \o m[2]
     ELSE IF startsWith(url, HTTP) \/ startsWith(url, HTTPS) THEN url
     ELSE <<>>

\* what a command printed
Ok_(text) == {<<"OK", text>>}
Fail(text) == {<<"FAIL", text>>}
Usage == {<<"Usage", <<>>>>}

\* a break that leaves the URL where it is
BrokenKept(cfg) == cfg
\* line 760: config["gl_path"] = "n/a"
Broken(cfg) == [cfg EXCEPT !.gl_path = NotConnected]

\* the arguments the commands are typed with
ConnectArgs ==
  {<<"h", "t", "t", "p", " ", "h">>,
   <<"h", "t", "t", "p", ":", "/", "/", "h", "/", "d", "o", "c", "s", "/">>,
   <<"h">>}
BreakArgs == {<<"g", "l", "o", "b", "a", "l">>, <<"G", "L", "O", "B", "A", "L">>, <<"a", "l", "l">>}
SetArgs ==
  {<<"gl_path", RootUrl, "false">>,
   <<"max_enum_depth", <<"x">>, "false">>,
   <<"max_enum_depth", <<"-", "1">>, "false">>,
   <<"max_depth", <<"1">>, "true">>,
   <<"max_list_depth", <<>>, "true">>}
ConfigSetArgs ==
  {<<"max_list_depth", <<"9", "9", "9", "9", "9", "9", "9", "9", "9", "9">>, "yes">>,
   <<"gl_path", RootUrl, "y">>,
   <<"max_enum_depth", <<"1">>, "n">>}

\* cmdConnect (lines 398-431): connect global url
CmdConnect(url) ==
  /\ Idle
  /\ input' = [fn |-> "connect", args |-> url]
  /\ IF ConnectUrl(url) # <<>>
     THEN /\ config' = [config EXCEPT !.gl_path = ConnectUrl(url)]
          /\ output' = Ok_(ConnectUrl(url))
     ELSE /\ config' = config
          /\ output' = Fail(<<>>)
  /\ UNCHANGED <<file, server, visited, notFoundCache, visMutex, randCalls, calls,
                 probes, reqs, out, runs, accesses, lists>>

\* cmdBreak (lines 743-765) for an argument other than local
CmdBreak(args) ==
  /\ Idle
  /\ input' = [fn |-> "break", args |-> args]
  /\ IF tolower(args) = global
     THEN IF ~Connected(config.gl_path)
          THEN /\ config' = config
               /\ output' = Fail(<<>>)
          ELSE /\ config' = Broken(config)
               /\ output' = Ok_(<<>>)
     ELSE /\ config' = config
          /\ output' = Usage
  /\ UNCHANGED <<file, server, visited, notFoundCache, visMutex, randCalls, calls,
                 probes, reqs, out, runs, accesses, lists>>

\* cmdSet (lines 1316-1345): set key value persist
CmdSet(key, value, persist) ==
  /\ Idle
  /\ input' = [fn |-> "set", args |-> <<key, value, persist>>]
  /\ IF value = <<>>
     THEN /\ config' = config /\ file' = file
          /\ output' = Usage
     ELSE IF key \notin DOMAIN config
     THEN /\ config' = config /\ file' = file
          /\ output' = Fail(<<>>)
     ELSE /\ config' = [config EXCEPT ![key] = value]
          /\ file' = IF persist \in {"true", "1", "yes"} THEN config' ELSE file
          /\ output' = Ok_(value)
  /\ UNCHANGED <<server, visited, notFoundCache, visMutex, randCalls, calls,
                 probes, reqs, out, runs, accesses, lists>>

\* cmdConfig (lines 1283-1305): config set key value, and the answer to its
\* question
CmdConfigSet(key, value, answer) ==
  /\ Idle
  /\ input' = [fn |-> "config", args |-> <<key, value, answer>>]
  /\ IF value = <<>>
     THEN /\ config' = config /\ file' = file
          /\ output' = Usage
     ELSE IF key \notin DOMAIN config
     THEN /\ config' = config /\ file' = file
          /\ output' = Fail(<<>>)
     ELSE IF answer \notin {"y", "yes"}
     THEN /\ config' = config /\ file' = file
          /\ output' = {}
     ELSE /\ config' = [config EXCEPT ![key] = value]
          /\ file' = config'
          /\ output' = Ok_(value)
  /\ UNCHANGED <<server, visited, notFoundCache, visMutex, randCalls, calls,
                 probes, reqs, out, runs, accesses, lists>>

\* cmdReload (lines 377-383) and loadConfig (lines 113-128): every key of the
\* config file replaces the value in the map
CmdReload ==
  /\ Idle
  /\ input' = [fn |-> "reload", args |-> <<>>]
  /\ config' = IF file = NoFile THEN config ELSE file
  /\ output' = Ok_(<<>>)
  /\ UNCHANGED <<file, server, visited, notFoundCache, visMutex, randCalls, calls,
                 probes, reqs, out, runs, accesses, lists>>


Next ==
  \/ CmdEnum
  \/ CmdListGlobal
  \/ \E c \in DOMAIN lists : ListReturn(c)
  \/ \E c \in DOMAIN lists : ListFetch(c)
  \/ \E c \in DOMAIN lists : ListJoin(c)
  \/ \E c \in DOMAIN calls : GuardLock(c)
  \/ \E c \in DOMAIN calls : GuardCheck(c)
  \/ \E c \in DOMAIN calls : GuardInsert(c)
  \/ \E c \in DOMAIN calls : Fetch(c)
  \/ \E c \in DOMAIN calls : BaseLock(c)
  \/ \E c \in DOMAIN calls : BaseLookup(c)
  \/ \E c \in DOMAIN calls : BaseProbe(c)
  \/ \E c \in DOMAIN calls : Launch(c)
  \/ \E c \in DOMAIN calls : Barrier(c)
  \/ \E c \in DOMAIN calls : Join(c)
  \/ \E p \in DOMAIN probes : ProbeFetch(p)
  \/ \E p \in DOMAIN probes : ProbeStatus(p)
  \/ \E p \in DOMAIN probes : ProbeLock(p)
  \/ \E p \in DOMAIN probes : ProbeInsert(p)

Spec == Init /\ [][Next]_vars

\* every task that can take a step is eventually run, and every request
\* eventually completes or times out
FairSpec == Spec /\ WF_vars(Next)

\* the process as it starts with a config file TCLI that holds
\* max_enum_depth=0 and max_list_depth=0 and the defaults of lines 40-57
\* (line 1353), before a server that is a small site
CliInit ==
  /\ server = "site"
  /\ config = [gl_path |-> NotConnected, max_enum_depth |-> <<"0">>,
               max_list_depth |-> <<"0">>,
               curl_max_time |-> "2", user_agent |-> "Mozilla/5.0"]
  /\ file = config
  /\ visited = {}
  /\ notFoundCache = <<>>
  /\ visMutex = {}
  /\ randCalls = 0
  /\ calls = <<>>
  /\ probes = <<>>
  /\ reqs = {}
  /\ out = {}
  /\ runs = 0
  /\ accesses = {}
  /\ lists = <<>>
  /\ input = NoInput
  /\ output = {}

\* cliLoop (lines 1351-1400): the commands, and the steps of the command
\* that runs
CliNext ==
  \/ \E url \in ConnectArgs : CmdConnect(url)
  \/ \E args \in BreakArgs : CmdBreak(args)
  \/ \E a \in SetArgs : CmdSet(a[1], a[2], a[3])
  \/ \E a \in ConfigSetArgs : CmdConfigSet(a[1], a[2], a[3])
  \/ CmdReload
  \/ CmdEnum
  \/ CmdListGlobal
  \/ \E c \in DOMAIN lists : ListReturn(c)
  \/ \E c \in DOMAIN lists : ListFetch(c)
  \/ \E c \in DOMAIN lists : ListJoin(c)
  \/ \E c \in DOMAIN calls : GuardLock(c)
  \/ \E c \in DOMAIN calls : GuardCheck(c)
  \/ \E c \in DOMAIN calls : GuardInsert(c)
  \/ \E c \in DOMAIN calls : Fetch(c)
  \/ \E c \in DOMAIN calls : BaseLock(c)
  \/ \E c \in DOMAIN calls : BaseLookup(c)
  \/ \E c \in DOMAIN calls : BaseProbe(c)
  \/ \E c \in DOMAIN calls : Launch(c)
  \/ \E c \in DOMAIN calls : Barrier(c)
  \/ \E c \in DOMAIN calls : Join(c)
  \/ \E p \in DOMAIN probes : ProbeFetch(p)
  \/ \E p \in DOMAIN probes : ProbeStatus(p)
  \/ \E p \in DOMAIN probes : ProbeLock(p)
  \/ \E p \in DOMAIN probes : ProbeInsert(p)

CliSpec == CliInit /\ [][CliNext]_vars



(***************************************************************************)
(* The helper functions called on their own: combineUrl, extractLinks and  *)
(* the notRedirect test of a classification task, each applied to          *)
(* arguments drawn from a bounded set.                                     *)
(***************************************************************************)
\* the base URLs and the links combineUrl is called with
Bases ==
  {<<"h", "t", "t", "p", ":", "/", "/", "h">>,
   <<"h", "t", "t", "p", ":", "/", "/", "h", "/">>,
   <<"h", "t", "t", "p", ":", "/", "/", "h", "/", "a">>,
   <<"h", "t", "t", "p", ":", "/", "/", "h", "/", "a", "/">>,
   <<"h", "t", "t", "p", "s", ":", "/", "/", "h", "/", "a", "/", "b", "/">>,
   <<"h", "t", "t", "p", ":", "/", "/", "h", "/", "/">>,
   <<"h", "/", "a">>,
   <<"h", "/", "a", "/">>,
   <<>>,
   <<"/">>,
   <<"h", "t", "t", "p", ":", "/", "/">>,
   <<"f", "t", "p", ":", "/", "/", "h", "/", "a", "/">>}

Relatives ==
  {<<>>,
   <<"c">>,
   <<"c", "/">>,
   <<"/", "b">>,
   <<"/">>,
   <<"h", "t", "t", "p", ":", "/", "/", "x", "/", "y">>,
   <<"h", "t", "t", "p", "s", ":", "/", "/", "x", "/">>,
   <<".", ".", "/">>,
   <<"/", "/", "x">>,
   <<"h", "t", "t", "p", ":", "/", "x">>}

\* an anchor with attributes before href, an anchor with a single-quoted
\* href, an anchor without href: the href_regex of line 477 matches the first
\* and neither of the others
AnchorWith(attrs, h) == [kind |-> "a", href |-> h, text |-> attrs, size |-> 40]
AnchorSingleQuoted(h) == [kind |-> "a'", href |-> h, text |-> <<>>, size |-> 20]
AnchorNamed(n) == [kind |-> "a name", href |-> <<>>, text |-> n, size |-> 20]

\* the sequences of at most n elements of the set S
SeqsUpTo(S, n) == UNION {[1..k -> S] : k \in 0..n}

\* the documents extractLinks is called with
LinkElements ==
  {Anchor(docs), Anchor(ztxt), AnchorWith(<<"class">>, ztxt),
   AnchorSingleQuoted(docs), AnchorNamed(<<"top">>), Text(<<"hello">>, 10)}
Documents == SeqsUpTo(LinkElements, MaxElems)

\* the bodies and the base URLs the notRedirect test is called with
RedirectElements ==
  {Refresh(RootUrl), Refresh(HTTP \o <<"o">>), Anchor(RootUrl \o Slash \o docs),
   Anchor(docs), Text(<<"hello">>, 10)}
RedirectBodies == SeqsUpTo(RedirectElements, 2) \ {<<>>}
RedirectBases == {RootUrl, combineUrl(RootUrl, adir)}

\* the lines, and the keys typed into them: Tab, Enter, Backspace, e, a
\* control key, the arrows left and right, Escape before Tab or O
Lines ==
  {<<>>, <<"h", "e">>, <<"c", "o">>, <<"e">>, <<"x">>, <<"l", "d", " ">>,
   <<"l", "d", " ", "g">>, <<"c", "o", "n", "n", "e", "c", "t", " ", "g", "l", "o", "b", "a", "l", " ">>}
Keys ==
  {<<9, 0, 0>>, <<10, 0, 0>>, <<8, 0, 0>>, <<101, 0, 0>>, <<1, 0, 0>>,
   <<27, 91, 68>>, <<27, 91, 67>>, <<27, 9, 0>>, <<27, 79, 0>>}

Inputs ==
  {[fn |-> "combineUrl", base |-> b, relative |-> r] : b \in Bases, r \in Relatives}
    \cup {[fn |-> "extractLinks", html |-> h] : h \in Documents}
    \cup {[fn |-> "notRedirect", probe |-> p, baseUrl |-> u] :
            p \in RedirectBodies, u \in RedirectBases}
    \cup UNION {{[fn |-> "readKey", ed |-> Editor(b, n),
                   c |-> k[1], c1 |-> k[2], c2 |-> k[3]] :
                    n \in 0..Len(b), k \in Keys} : b \in Lines}

\* the value returned under the name tag
Returned(tag) == \E p \in output : p[1] = tag
Out(tag) == (CHOOSE p \in output : p[1] = tag)[2]

FnInit ==
  /\ input \in Inputs
  /\ output = {}
  /\ file = NoFile
  /\ server = "site"
  /\ config = [gl_path |-> NotConnected, max_enum_depth |-> to_string(3),
               max_list_depth |-> to_string(5),
               curl_max_time |-> "2", user_agent |-> "Mozilla/5.0"]
  /\ visited = {}
  /\ notFoundCache = <<>>
  /\ visMutex = {}
  /\ randCalls = 0
  /\ calls = <<>>
  /\ probes = <<>>
  /\ reqs = {}
  /\ out = {}
  /\ runs = 0
  /\ accesses = {}
  /\ lists = <<>>

\* combineUrl(base, relative)
DoCombineUrl ==
  /\ input.fn = "combineUrl" /\ ~Returned("url")
  /\ output' = output \cup {<<"url", combineUrl(input.base, input.relative)>>}
  /\ UNCHANGED <<file, input, lists, config, server, visited, notFoundCache, visMutex,
                 randCalls, calls, probes, reqs, out, runs, accesses>>

\* combineUrl(combineUrl(base, relative), "")
DoCombineUrlAgain ==
  /\ input.fn = "combineUrl" /\ Returned("url") /\ ~Returned("again")
  /\ output' = output \cup {<<"again", combineUrl(Out("url"), <<>>)>>}
  /\ UNCHANGED <<file, input, lists, config, server, visited, notFoundCache, visMutex,
                 randCalls, calls, probes, reqs, out, runs, accesses>>

\* combineUrl(base + "/", relative)
DoCombineUrlSlashed ==
  /\ input.fn = "combineUrl" /\ ~Returned("slashed")
  /\ output' = output \cup
       {<<"slashed", combineUrl(input.base \o Slash, input.relative)>>}
  /\ UNCHANGED <<file, input, lists, config, server, visited, notFoundCache, visMutex,
                 randCalls, calls, probes, reqs, out, runs, accesses>>

\* extractLinks(html)
DoExtractLinks ==
  /\ input.fn = "extractLinks" /\ ~Returned("links")
  /\ output' = output \cup {<<"links", extractLinks(input.html)>>}
  /\ UNCHANGED <<file, input, lists, config, server, visited, notFoundCache, visMutex,
                 randCalls, calls, probes, reqs, out, runs, accesses>>

\* lines 579-581 on the body probe and the base URL baseUrl
DoNotRedirect ==
  /\ input.fn = "notRedirect" /\ ~Returned("notRedirect")
  /\ output' = output \cup
       {<<"notRedirect", <<NotRedirect(input.probe, input.baseUrl)>> >>}
  /\ UNCHANGED <<file, input, lists, config, server, visited, notFoundCache, visMutex,
                 randCalls, calls, probes, reqs, out, runs, accesses>>

\* one key typed into the line editor
DoReadKey ==
  /\ input.fn = "readKey" /\ ~Returned("readKey")
  /\ output' = output \cup
       {<<"readKey", readKey(input.ed, input.c, input.c1, input.c2)>>}
  /\ UNCHANGED <<file, input, lists, config, server, visited, notFoundCache, visMutex,
                 randCalls, calls, probes, reqs, out, runs, accesses>>

FnNext ==
  \/ DoReadKey
  \/ DoCombineUrl
  \/ DoCombineUrlAgain
  \/ DoCombineUrlSlashed
  \/ DoExtractLinks
  \/ DoNotRedirect

FnSpec == FnInit /\ [][FnNext]_vars


(***************************************************************************)
(* Properties.                                                             *)
(***************************************************************************)
IsPrefix(a, b) == Len(a) <= Len(b) /\ SubSeq(b, 1, Len(a)) = a

BaseFetches(u) == {r \in reqs : r.kind = "base" /\ r.url = u}
BaselineProbes(u) == {r \in reqs : r.kind = "baseline" /\ r.base = u}
RequestsOf(c) == {r \in reqs : r.run = runs /\ r.by[1] = c}
LinesOf(c) == {l \in out : l.run = runs /\ l.by[1] = c}

\* the call has the page and its baseline signature
PastBaseline(c) ==
  \/ calls[c].pc \in {"launch", "join"}
  \/ calls[c].pc = "done" /\ calls[c].admitted = "yes" /\ calls[c].html # <<>>

\* C1: of the concurrent calls of enumerateDirectories on one URL exactly one
\* passes the visited guard and fetches the URL; the others return at once,
\* without a request and without output.
C1_OneCallPassesGuard ==
  /\ \A c1, c2 \in DOMAIN calls :
       /\ calls[c1].url = calls[c2].url
       /\ calls[c1].admitted = "yes" /\ calls[c2].admitted = "yes"
       => c1 = c2
  /\ \A c \in DOMAIN calls : Cardinality(BaseFetches(calls[c].url)) <= 1
  /\ \A c \in DOMAIN calls :
       calls[c].admitted = "no" =>
         /\ calls[c].pc = "done"
         /\ RequestsOf(c) = {} /\ LinesOf(c) = {}
         /\ \A k \in DOMAIN calls : IsPrefix(c, k) => k = c
         /\ \A p \in DOMAIN probes : p[1] # c
         /\ calls[c].depth <= calls[c].maxDepth =>
              \/ \E k \in DOMAIN calls :
                   calls[k].url = calls[c].url /\ calls[k].admitted = "yes"
              \/ \E r \in BaseFetches(calls[c].url) : r.run < runs

\* two calls on one URL with an allowed depth, one admitted and still running,
\* the other turned away
C1_Witness ==
  \E c1, c2 \in DOMAIN calls :
    /\ c1 # c2 /\ calls[c1].url = calls[c2].url
    /\ calls[c1].admitted = "yes" /\ calls[c1].pc # "done"
    /\ calls[c2].admitted = "no" /\ calls[c2].depth <= calls[c2].maxDepth

C3_BarrierBeforeRecursion ==
  \A c \in DOMAIN calls :
    (\E k \in DOMAIN calls : Len(k) = Len(c) + 1 /\ IsPrefix(c, k)) =>
      /\ calls[c].idx > Len(Dict)
      /\ \A p \in DOMAIN probes : p[1] = c => probes[p].pc = "done"

\* a call with classification tasks, one of them accepted, has started its
\* recursive branches
C3_Witness ==
  \E c \in DOMAIN calls :
    /\ \E k \in DOMAIN calls : Len(k) = Len(c) + 1 /\ IsPrefix(c, k)
    /\ \E p \in DOMAIN probes : p[1] = c /\ Accepted(probes[p].sig)

\* C4: a call that has returned has no classification task and no descendant
\* call still running.
C4_ReturnsAfterDescendants ==
  \A c \in DOMAIN calls :
    calls[c].pc = "done" =>
      /\ \A k \in DOMAIN calls : IsPrefix(c, k) => calls[k].pc = "done"
      /\ \A p \in DOMAIN probes : IsPrefix(c, p[1]) => probes[p].pc = "done"

\* the root call has returned from a tree two levels deep with classification tasks
C4_Witness ==
  /\ RootCall \in DOMAIN calls /\ calls[RootCall].pc = "done"
  /\ \E k \in DOMAIN calls : Len(k) = 2 /\ calls[k].admitted = "yes"
  /\ \E p \in DOMAIN probes : Len(p[1]) = 1

\* C5: no request is issued by a call deeper than maxDepth, and no URL is
\* admitted at such a depth; with maxDepth = 0 every request is the root's.
C5_DepthBound ==
  /\ \A r \in reqs : r.depth <= r.maxDepth
  /\ \A c \in DOMAIN calls :
       calls[c].depth > calls[c].maxDepth =>
         calls[c].admitted # "yes" /\ RequestsOf(c) = {}
  /\ \A r \in reqs : r.maxDepth = 0 => r.by[1] = RootCall

\* with maxDepth = 0 the root probed a candidate, and the call on a found
\* directory has returned
C5_Witness ==
  /\ RootCall \in DOMAIN calls /\ calls[RootCall].maxDepth = 0
  /\ \E r \in reqs : r.kind = "probe" /\ r.depth = 0
  /\ \E k \in DOMAIN calls : Len(k) = 1 /\ calls[k].pc = "done"

\* C6: an enumeration that was started terminates, with every call and every
\* classification task finished.
C6_Terminates ==
  RunActive ~> (/\ ~RunActive
                /\ \A c \in DOMAIN calls : calls[c].pc = "done"
                /\ \A p \in DOMAIN probes : probes[p].pc = "done")

\* an enumeration of the site whose pages link in cycles has ended, after a
\* call was turned away from a page already visited
C6_Witness ==
  /\ server = "loop" /\ runs = 1 /\ ~RunActive
  /\ \E c \in DOMAIN calls : calls[c].admitted = "no" /\ calls[c].depth <= calls[c].maxDepth
  /\ \E c \in DOMAIN calls : calls[c].depth = 2 /\ calls[c].admitted = "yes"


\* What a breadth-first crawl of a deterministic server enumerates: the
\* answer of the server to a URL, the found-set of a page, and the URLs
\* whose least depth is at most n.
C7_Answer(u) == CHOOSE r \in Responses(server, u) : TRUE

C7_Found(u) ==
  LET known == KnownDirs(C7_Answer(u).body)
      fake == combineUrl(u, FakePrefix \o to_string(0) \o Slash)
      sig == Substr512(C7_Answer(fake).body)
  IN known \cup
       {d \in Range(Dict) \ known :
          LET a == C7_Answer(combineUrl(u, d))
          IN a.body # <<>> /\ Accepted(Classify(u, a.body, a.status, sig))}

C7_Within[n \in 0..3] ==
  IF n = 0 THEN [seen |-> {config.gl_path}, last |-> {config.gl_path}]
  ELSE LET prev == C7_Within[n - 1]
           pages == {u \in prev.last : C7_Answer(u).body # <<>>}
           next == UNION {{combineUrl(u, d) : d \in C7_Found(u)} : u \in pages}
       IN [seen |-> prev.seen \cup next, last |-> next \ prev.seen]

\* the base URLs the current enum was admitted to, and the directories it printed
Enumerated == {calls[c].url : c \in {k \in DOMAIN calls : calls[k].admitted = "yes"}}
Reported ==
  {<<calls[l.by[1]].url, l.arg>> : l \in {k \in out : k.run = runs /\ k.kind = "dir"}}

\* C7: against a deterministic server the base URLs enumerated and the
\* directories reported by one enum are the same under every schedule: those
\* of the crawl in order of depth.
C7_ScheduleIndependent ==
  (/\ runs = 1 /\ ~RunActive /\ RootCall \in DOMAIN calls
   /\ Deterministic(server))
  => /\ Enumerated = C7_Within[stoi(config.max_enum_depth).value].seen
     /\ Reported = UNION {{<<u, d>> : d \in C7_Found(u)} :
                            u \in {v \in Enumerated : C7_Answer(v).body # <<>>}}

\* the crawl in order of depth is one of the schedules
C7_InOrderOfDepth ==
  /\ runs = 1 /\ ~RunActive /\ RootCall \in DOMAIN calls
  /\ server = "shared"
  /\ Enumerated = C7_Within[stoi(config.max_enum_depth).value].seen

\* C8: visited and notFoundCache are the only mutable objects that more than
\* one task touches, each access to them is made with visMutex held, and a
\* classification task touches nothing another task touches.
C8_OnlyVisitedAndCacheShared ==
  /\ \A a \in accesses : a.obj \in {"visited", "notFoundCache"} => a.locked
  /\ \A a, b \in accesses :
       a.obj = b.obj /\ a.owner = b.owner /\ a.by # b.by
       => a.obj \in {"visited", "notFoundCache"}

\* C9: every request carries the configured timeout and User-Agent.
C9_EveryRequestTimedAndAgent ==
  \A r \in reqs : r.maxTime = config.curl_max_time /\ r.ua = config.user_agent

\* C10: a link of the page that names a directory is in the found-set, no
\* classification task is launched for it, and once the branches are started
\* there is a call at depth + 1 on its resolved URL.
C10_KnownDirsUnprobedAndRecursed ==
  \A c \in DOMAIN calls :
    PastBaseline(c) =>
      \A l \in KnownDirs(calls[c].html) :
        /\ l \in calls[c].foundDirs
        /\ ProbeTask(c, l) \notin DOMAIN probes
        /\ calls[c].pc \in {"join", "done"} =>
             /\ Append(c, l) \in DOMAIN calls
             /\ calls[Append(c, l)].depth = calls[c].depth + 1
             /\ calls[Append(c, l)].url = combineUrl(calls[c].url, l)

\* the requests and the lines of a task in the current command
RequestsBy(task, kind) == {r \in reqs : r.run = runs /\ r.by = task /\ r.kind = kind}
LinesBy(task) == {l \in out : l.run = runs /\ l.by = task}

\* the classification task has computed its signals
Classified(p) ==
  \/ probes[p].pc \in {"lock_found", "inserting"}
  \/ probes[p].pc = "done" /\ probes[p].body # <<>>

\* the classification task has returned without a body
Skipped(p) == probes[p].pc = "done" /\ probes[p].body = <<>>

\* the classification task has put, or is about to put, its directory into
\* the found-set
PutInFound(p) ==
  \/ probes[p].pc \in {"lock_found", "inserting"}
  \/ /\ probes[p].pc = "done"
     /\ p[2] \in calls[p[1]].foundDirs
     /\ \E l \in LinesBy(p) : l.kind = "OK" /\ l.arg = p[2]

\* C11: a candidate whose fetch gave nothing is dropped: no signal, no
\* status-code request, no insert into the found-set, no line; the other
\* candidates of the level are classified as usual.
C11_EmptyProbeSkipped ==
  \A p \in DOMAIN probes :
    Skipped(p) =>
      /\ probes[p].sig = NoSignals /\ probes[p].score = 0
      /\ Cardinality(RequestsBy(p, "probe")) = 1
      /\ RequestsBy(p, "status") = {}
      /\ LinesBy(p) = {}
      /\ \A a \in accesses : a.by # p
      /\ \A q \in DOMAIN probes :
           (q[1] = p[1] /\ probes[q].pc = "done" /\ probes[q].body # <<>>) =>
             /\ Cardinality(RequestsBy(q, "status")) = 1
             /\ probes[q].score >= 2 <=> (\E l \in LinesBy(q) : l.kind = "OK")

\* at one level a candidate was dropped for an empty fetch and another was
\* accepted
C11_Witness ==
  \E p, q \in DOMAIN probes :
    /\ p[1] = q[1] /\ Skipped(p)
    /\ probes[q].pc = "done" /\ probes[q].body # <<>> /\ PutInFound(q)

SignalNames == {"not404", "statusOk", "looksLikeDir", "titleOk", "notRedirect"}

\* C12: the score of a classified candidate is the number of its true
\* signals, and the candidate is put into the found-set iff the score is at
\* least 2.
C12_ScoreCountsSignals ==
  \A p \in DOMAIN probes :
    Classified(p) =>
      /\ probes[p].score = Cardinality({n \in SignalNames : probes[p].sig[n]})
      /\ probes[p].score \in 0..5
      /\ PutInFound(p) <=> probes[p].score >= 2

\* one candidate was accepted with all five signals, another was rejected
\* with one
C12_Witness ==
  /\ \E p \in DOMAIN probes :
       probes[p].pc = "done" /\ probes[p].score = 5 /\ PutInFound(p)
  /\ \E p \in DOMAIN probes :
       probes[p].pc = "done" /\ Classified(p) /\ probes[p].score = 1 /\ ~PutInFound(p)

\* the body the server gave to the baseline probe of the call c
BaselineBody(c) ==
  LET r == CHOOSE b \in BaselineProbes(calls[c].url) : TRUE
  IN C7_Answer(r.url).body

\* C13: not404 is true exactly when the first 512 bytes of the body differ
\* from the baseline signature; a body identical to the baseline response
\* does not set it, and with no other signal is not accepted.
C13_Not404ComparesPrefix ==
  \A p \in DOMAIN probes :
    (Classified(p) /\ Deterministic(server)) =>
      /\ probes[p].sig.not404 <=>
           Substr512(probes[p].body) # calls[p[1]].notFoundSig
      /\ calls[p[1]].notFoundSig = Substr512(BaselineBody(p[1]))
      /\ probes[p].body = BaselineBody(p[1]) =>
           /\ ~probes[p].sig.not404
           /\ (\A n \in SignalNames \ {"not404"} : ~probes[p].sig[n]) => ~PutInFound(p)

\* one candidate answered with the baseline page and had no signal at all;
\* another answered with a page that differs from the baseline only after
\* byte 512
C13_Witness ==
  /\ \E p \in DOMAIN probes :
       /\ probes[p].pc = "done" /\ probes[p].body # <<>>
       /\ probes[p].body = BaselineBody(p[1])
       /\ probes[p].sig = NoSignals /\ ~PutInFound(p)
  /\ \E p \in DOMAIN probes :
       /\ probes[p].pc = "done" /\ probes[p].body # <<>>
       /\ probes[p].body # BaselineBody(p[1])
       /\ ~probes[p].sig.not404

\* C14: a baseline probe stores a signature under its base URL, also an empty
\* one, and an entry of the cache is never replaced or recomputed.
C14_EmptySignatureKept ==
  [][/\ \A u \in DOMAIN notFoundCache :
          u \in DOMAIN notFoundCache' /\ notFoundCache'[u] = notFoundCache[u]
     /\ \A r \in reqs' \ reqs :
          r.kind = "baseline" =>
            /\ r.base \notin DOMAIN notFoundCache
            /\ BaselineProbes(r.base) = {}
            /\ r.base \in DOMAIN notFoundCache'
            /\ notFoundCache'[r.base] = Substr512(C7_Answer(r.url).body)]_vars

\* an empty signature is in the cache after a later command has run
C14_Witness ==
  /\ runs = 2 /\ ~RunActive /\ ~ListActive
  /\ \E u \in DOMAIN notFoundCache :
       notFoundCache[u] = <<>> /\ BaselineProbes(u) # {}

\* C15: a call whose page fetch gave nothing prints "no response" and
\* returns: no baseline probe, no classification task, no recursive branch.
C15_NoResponseReturns ==
  \A c \in DOMAIN calls :
    (calls[c].admitted = "yes" /\ calls[c].pc = "done" /\ calls[c].html = <<>>) =>
      /\ \E l \in LinesBy(CallTask(c)) : l.kind = "NoResponse"
      /\ \A r \in RequestsOf(c) : r.kind = "base"
      /\ {r \in reqs : r.kind = "baseline" /\ r.base = calls[c].url} = {}
      /\ calls[c].url \notin DOMAIN notFoundCache
      /\ \A p \in DOMAIN probes : p[1] # c
      /\ \A k \in DOMAIN calls : IsPrefix(c, k) => k = c

\* a recursive branch got no response while a sibling branch got its page
C15_Witness ==
  \E c, k \in DOMAIN calls :
    /\ Len(c) = 1 /\ Len(k) = 1
    /\ calls[c].admitted = "yes" /\ calls[c].pc = "done" /\ calls[c].html = <<>>
    /\ calls[k].html # <<>>

\* C16: when the enum has returned, every call and every classification task
\* has finished, every dictionary name that was not linked was probed, and
\* every directory of every found-set has its branch, whatever failed.
C16_FailureDoesNotAbort ==
  (RootCall \in DOMAIN calls /\ ~RunActive) =>
    /\ \A p \in DOMAIN probes :
         probes[p].pc = "done" /\ Cardinality(RequestsBy(p, "probe")) = 1
    /\ \A c \in DOMAIN calls :
         /\ calls[c].pc = "done"
         /\ (calls[c].admitted = "yes" /\ calls[c].html # <<>>) =>
              /\ \A d \in Range(Dict) :
                   d \in KnownDirs(calls[c].html) \/ ProbeTask(c, d) \in DOMAIN probes
              /\ \A d \in calls[c].foundDirs :
                   /\ Append(c, d) \in DOMAIN calls
                   /\ \E l \in LinesBy(CallTask(c)) : l.kind = "dir" /\ l.arg = d

\* the enum has returned after one branch and one candidate failed to fetch,
\* and a sibling branch and a sibling candidate went through
C16_Witness ==
  /\ RootCall \in DOMAIN calls /\ ~RunActive
  /\ \E c, k \in DOMAIN calls :
       /\ Len(c) = 1 /\ Len(k) = 1
       /\ calls[c].admitted = "yes" /\ calls[c].html = <<>>
       /\ calls[k].admitted = "yes" /\ calls[k].html # <<>>
  /\ \E p, q \in DOMAIN probes :
       p[1] = q[1] /\ Skipped(p) /\ PutInFound(q)

\* C17: nothing is fetched twice in one run: one page request for a base
\* URL, one body request for a candidate of a level; a call that has fetched
\* its page does not come back to the fetch, nor does a classification task.
C17_NothingRetried ==
  /\ [](\A r1, r2 \in reqs :
          (/\ r1.run = r2.run /\ r1.url = r2.url /\ r1.kind = r2.kind
           /\ \/ r1.kind = "base"
              \/ r1.kind = "probe" /\ r1.base = r2.base)
          => r1 = r2)
  /\ [][/\ \A c \in DOMAIN calls \cap DOMAIN calls' :
             (runs' = runs /\ calls'[c].pc = "fetch") =>
               calls[c].pc \in {"guard_insert", "fetch"}
        /\ \A p \in DOMAIN probes \cap DOMAIN probes' :
             (runs' = runs /\ probes'[p].pc = "probe") => probes[p].pc = "probe"
        /\ \A r \in reqs' \ reqs :
             /\ r.kind = "base" => calls'[r.by[1]].pc # "fetch"
             /\ r.kind = "probe" => probes'[r.by].pc # "probe"]_vars

\* the enum has returned; a page fetch and a candidate fetch failed, and each
\* was made once
C17_Witness ==
  /\ RootCall \in DOMAIN calls /\ ~RunActive
  /\ \E c \in DOMAIN calls :
       /\ calls[c].admitted = "yes" /\ calls[c].html = <<>>
       /\ Cardinality({r \in reqs : r.kind = "base" /\ r.url = calls[c].url}) = 1
  /\ \E p \in DOMAIN probes : Skipped(p) /\ Cardinality(RequestsBy(p, "probe")) = 1

\* C18: with gl_path "n/a" the enum and ld global commands print the
\* not-connected error and start nothing: no call, no request, and the
\* visited set and the baseline cache stay as they are.
C18_NotConnectedRejected ==
  [][config.gl_path = NotConnected =>
       /\ reqs' = reqs /\ visited' = visited /\ notFoundCache' = notFoundCache
       /\ calls' = <<>> /\ lists' = <<>> /\ probes' = <<>>
       /\ runs' = runs + 1
       /\ \E l \in out' \ out : l.kind = "NotConnected" /\ l.run = runs']_vars

\* both commands were typed with no target and were rejected
C18_Witness ==
  /\ config.gl_path = NotConnected
  /\ \E l \in out : l.kind = "NotConnected" /\ l.arg = <<"enum">>
  /\ \E l \in out : l.kind = "NotConnected" /\ l.arg = <<"ld", "global">>
  /\ reqs = {} /\ visited = {}

\* C19: the visited set only grows, a URL is enumerated at most once in the
\* life of the process, and an enum whose root was enumerated before issues
\* no request.
C19_VisitedOnlyGrows ==
  /\ [][visited \subseteq visited']_vars
  /\ [](\A r1, r2 \in reqs :
          (r1.kind = "base" /\ r2.kind = "base" /\ r1.url = r2.url) => r1 = r2)
  /\ []((/\ RootCall \in DOMAIN calls
         /\ \E r \in reqs : r.kind = "base" /\ r.url = calls[RootCall].url /\ r.run < runs)
        => /\ calls[RootCall].admitted # "yes"
           /\ {r \in reqs : r.run = runs} = {}
           /\ DOMAIN calls = {RootCall})

\* a second enum of a root that the first enum enumerated has returned
C19_Witness ==
  /\ runs = 2 /\ RootCall \in DOMAIN calls
  /\ calls[RootCall].pc = "done" /\ calls[RootCall].admitted = "no"
  /\ calls[RootCall].url \in visited
  /\ \E r \in reqs : r.kind = "base" /\ r.url = calls[RootCall].url /\ r.run = 1

\* C20: listGlobalRecursive fetches no URL deeper than maxDepth, a call
\* returns after its branches, and an ld global that was started ends with
\* every call finished, also where the links form a cycle.
C20_ListerBoundedByDepth ==
  /\ [][\A r \in reqs' \ reqs : r.kind = "list" => r.depth <= r.maxDepth]_vars
  /\ [](\A c \in DOMAIN lists :
          /\ lists[c].depth > lists[c].maxDepth => lists[c].pc \in {"start", "done"}
          /\ lists[c].pc = "done" =>
               \A k \in DOMAIN lists : IsPrefix(c, k) => lists[k].pc = "done")
  /\ ListActive ~> (~ListActive /\ \A c \in DOMAIN lists : lists[c].pc = "done")

\* an ld global has ended after fetching one URL twice, with no visited guard
\* in its way
C20_Witness ==
  /\ RootCall \in DOMAIN lists /\ ~ListActive
  /\ \E r1, r2 \in reqs :
       /\ r1.kind = "list" /\ r2.kind = "list" /\ r1.run = runs /\ r2.run = runs
       /\ r1.url = r2.url /\ r1 # r2
  /\ \E c \in DOMAIN lists : lists[c].depth > lists[c].maxDepth

\* base without one trailing "/"
StripOne(base) ==
  IF base # <<>> /\ base[Len(base)] = "/" THEN SubSeq(base, 1, Len(base) - 1) ELSE base

IsAbsolute(relative) == startsWith(relative, HTTP) \/ startsWith(relative, HTTPS)

\* the scheme://host prefix of base: http:// or https:// and the characters,
\* at least one, up to the next "/"; <<>> when base has none
HostPrefix(base) ==
  LET scheme == IF startsWith(base, HTTPS) THEN HTTPS
                ELSE IF startsWith(base, HTTP) THEN HTTP ELSE <<>>
      ends == {n \in (Len(scheme) + 1)..Len(base) :
                 \A i \in (Len(scheme) + 1)..n : base[i] # "/"}
  IN IF scheme = <<>> \/ ends = {} THEN <<>>
     ELSE SubSeq(base, 1, CHOOSE n \in ends : \A m \in ends : m <= n)

\* C23: combineUrl(base, "") is base, with or without a trailing "/", and
\* combineUrl(combineUrl(b, r), "") is combineUrl(b, r).
C23_ResolverIdentity ==
  input.fn = "combineUrl" =>
    /\ (Returned("url") /\ input.relative = <<>>) => Out("url") = input.base
    /\ Returned("again") => Out("again") = Out("url")

\* a base with a trailing "/" was resolved with the empty link, twice
C23_Witness ==
  /\ input.fn = "combineUrl" /\ input.relative = <<>>
  /\ input.base = <<"h", "t", "t", "p", ":", "/", "/", "h", "/", "a", "/">>
  /\ Returned("again") /\ Out("again") = input.base

\* C24: a link that begins with http:// or https:// is returned as it is,
\* whatever the base.
C24_ResolverAbsolute ==
  (input.fn = "combineUrl" /\ Returned("url") /\ IsAbsolute(input.relative)) =>
    Out("url") = input.relative

\* an https link was resolved against a base on another host
C24_Witness ==
  /\ input.fn = "combineUrl" /\ Returned("url")
  /\ input.base = <<"h", "t", "t", "p", ":", "/", "/", "h", "/", "a", "/">> /\ input.relative = <<"h", "t", "t", "p", "s", ":", "/", "/", "x", "/">>

\* C25: a link that begins with "/" is put after the scheme://host prefix of
\* the base; after the base less one trailing "/" when the base has no such
\* prefix.
C25_ResolverRootRelative ==
  (/\ input.fn = "combineUrl" /\ Returned("url")
   /\ input.relative # <<>> /\ input.relative[1] = "/") =>
    Out("url") = IF HostPrefix(input.base) # <<>>
                 THEN HostPrefix(input.base) \o input.relative
                 ELSE StripOne(input.base) \o input.relative

\* http://h/a with /b gave http://h/b
C25_Witness ==
  /\ input.fn = "combineUrl" /\ Returned("url")
  /\ input.base = <<"h", "t", "t", "p", ":", "/", "/", "h", "/", "a">> /\ input.relative = <<"/", "b">>
  /\ Out("url") = <<"h", "t", "t", "p", ":", "/", "/", "h">> \o <<"/", "b">>

\* C26: any other non-empty link is put after the base less one trailing
\* "/" and a "/"; a base gives the same URL with a "/" added to it.
C26_ResolverJoin ==
  (/\ input.fn = "combineUrl"
   /\ input.relative # <<>> /\ ~IsAbsolute(input.relative)
   /\ input.relative[1] # "/") =>
    /\ Returned("url") =>
         Out("url") = StripOne(input.base) \o <<"/">> \o input.relative
    /\ (Returned("url") /\ Returned("slashed") /\ StripOne(input.base) = input.base) =>
         Out("slashed") = Out("url")

\* http://h/a/ with c gave http://h/a/c
C26_Witness ==
  /\ input.fn = "combineUrl" /\ Returned("url") /\ Returned("slashed")
  /\ input.base = <<"h", "t", "t", "p", ":", "/", "/", "h", "/", "a", "/">> /\ input.relative = <<"c">>
  /\ Out("url") = <<"h", "t", "t", "p", ":", "/", "/", "h", "/", "a", "/">> \o <<"c">>

\* the hrefs of the anchors the regex matches, from the first to the last
RECURSIVE HrefsInOrder(_)
HrefsInOrder(html) ==
  IF html = <<>> THEN <<>>
  ELSE (IF Head(html).kind = "a" THEN <<Head(html).href>> ELSE <<>>)
         \o HrefsInOrder(Tail(html))

\* C27: extractLinks returns the href of every anchor with a double-quoted
\* href, in the order of the document, a repeated href as often as it
\* occurs, attributes before href or not, and nothing for a document with no
\* such anchor.
C27_ExtractLinksInOrder ==
  (input.fn = "extractLinks" /\ Returned("links")) =>
    /\ Out("links") = HrefsInOrder(input.html)
    /\ Len(Out("links")) = Cardinality({i \in 1..Len(input.html) : input.html[i].kind = "a"})
    /\ (\A i \in 1..Len(input.html) : input.html[i].kind # "a") => Out("links") = <<>>

\* a document with one href twice and an anchor with a class before its href
C27_Witness ==
  /\ input.fn = "extractLinks" /\ Returned("links")
  /\ input.html = <<Anchor(docs), AnchorWith(<<"class">>, ztxt), Anchor(docs)>>
  /\ Out("links") = <<docs, ztxt, docs>>

\* C29: notRedirect is false exactly when the body has a meta refresh tag
\* whose target contains baseUrl.
C29_NotRedirectOnlyForSelfRefresh ==
  (input.fn = "notRedirect" /\ Returned("notRedirect")) =>
    Out("notRedirect")[1] =
      ~(\E i \in 1..Len(input.probe) :
          input.probe[i].kind = "refresh" /\ Contains(input.probe[i].href, input.baseUrl))

\* C21: while an ld global runs nothing touches the visited set, the
\* baseline cache or their lock, no classification task exists and every
\* request is the fetch of a listed page.
C21_ListerLeavesEnumStateAlone ==
  [][(ListActive \/ ListActive') =>
       /\ visited' = visited /\ notFoundCache' = notFoundCache
       /\ visMutex' = visMutex /\ randCalls' = randCalls
       /\ accesses' = {} /\ probes' = <<>> /\ calls' = <<>>
       /\ \A r \in reqs' \ reqs : r.kind = "list"]_vars

\* an ld global fetched the root, and the enum typed after it was admitted
\* to the root and fetched it
C21_Witness ==
  /\ runs = 2 /\ RootCall \in DOMAIN calls /\ calls[RootCall].admitted = "yes"
  /\ \E r \in reqs : r.kind = "list" /\ r.run = 1 /\ r.url = calls[RootCall].url
  /\ \E r \in reqs : r.kind = "base" /\ r.run = 2 /\ r.url = calls[RootCall].url

\* C22: a task inside the lookup of the baseline cache does not keep another
\* task out of the lookup, and a task that computes a missing signature is
\* alone in the block.
C22_CacheHitIsSharedRead ==
  /\ \A c1, c2 \in DOMAIN calls :
       (c1 # c2 /\ calls[c1].pc = "base_lookup" /\ calls[c2].pc = "base_lock")
       => CanLock
  /\ \A c \in DOMAIN calls : calls[c].pc = "base_probe" => visMutex = {CallTask(c)}

\* C28: once the branches of a call are started, its found-set is the
\* directories linked from the page and the candidates classified with a
\* score of 2 or more, and there is one call at depth + 1 for each member and
\* no other.
C28_FoundSetIsKnownAndAccepted ==
  \A c \in DOMAIN calls :
    calls[c].pc \in {"join", "done"} /\ calls[c].admitted = "yes" /\ calls[c].html # <<>> =>
      /\ calls[c].foundDirs =
           KnownDirs(calls[c].html) \cup
             {p[2] : p \in {q \in DOMAIN probes :
                              q[1] = c /\ probes[q].body # <<>> /\ probes[q].score >= 2}}
      /\ {k \in DOMAIN calls : Len(k) = Len(c) + 1 /\ IsPrefix(c, k)}
           = {Append(c, d) : d \in calls[c].foundDirs}
      /\ \A d \in calls[c].foundDirs :
           /\ calls[Append(c, d)].depth = calls[c].depth + 1
           /\ calls[Append(c, d)].url = combineUrl(calls[c].url, d)

\* a call with two accepted candidates, the second of which came for
\* foundMutex while the first was inside its insert, has started its two
\* branches
C28_Witness ==
  \E c \in DOMAIN calls :
    /\ calls[c].pc = "join"
    /\ Cardinality({p \in DOMAIN probes : p[1] = c /\ probes[p].score >= 2}) = 2
    /\ Cardinality({k \in DOMAIN calls : Len(k) = Len(c) + 1 /\ IsPrefix(c, k)}) = 2
    /\ \A p \in DOMAIN probes : p[1] = c => PutInFound(p)

\* C30: while a classification task is inside its insert into the found-set
\* the launching loop is not at its membership test, and no access to the
\* found-set is made without foundMutex before the barrier.
C30_FoundSetAccessLocked ==
  /\ \A p \in DOMAIN probes :
       probes[p].pc = "inserting" =>
         ~(calls[p[1]].pc = "launch" /\ calls[p[1]].idx <= Len(Dict))
  /\ \A a \in accesses :
       (a.obj = "foundDirs" /\ calls[a.owner].pc = "launch"
        /\ \E p \in DOMAIN probes : p[1] = a.owner)
       => a.locked

\* the places a task is at while it holds visMutex
GuardedPcs == {"guard_check", "guard_insert", "base_lookup", "base_probe"}

\* C31: the probe of a nonexistent path is fetched by a task that holds
\* visMutex: while it is in flight no other task is inside the visited guard
\* or the baseline block, so at most one such fetch is in flight.
C31_OneBaselineProbeInFlight ==
  \A c \in DOMAIN calls :
    calls[c].pc = "base_probe" =>
      /\ CallTask(c) \in visMutex
      /\ \A k \in DOMAIN calls \ {c} : calls[k].pc \notin GuardedPcs

\* a task fetches the probe of a nonexistent path while one task waits at
\* the visited guard and another at the baseline block
C31_Witness ==
  \E c, k1, k2 \in DOMAIN calls :
    /\ calls[c].pc = "base_probe"
    /\ calls[k1].pc = "guard_lock"
    /\ calls[k2].pc = "base_lock"

\* C32: as long as a task of the enumeration is unfinished some task can take
\* a step; a task that holds visMutex is inside the visited guard or the
\* baseline block, a task that holds foundMutex is inside its insert, and
\* neither waits there for a lock or for a future.
C32_DeadlockFree ==
  /\ RunActive => ENABLED Next
  /\ \A t \in visMutex :
       /\ t[2] = <<>> /\ t[1] \in DOMAIN calls
       /\ calls[t[1]].pc \in GuardedPcs
  /\ \A c \in DOMAIN calls :
       \A p \in calls[c].foundMutex :
         /\ p \in DOMAIN probes /\ p[1] = c
         /\ probes[p].pc = "inserting"
  /\ \A c \in DOMAIN calls :
       calls[c].pc \in {"guard_lock", "base_lock", "join"}
         \/ (calls[c].pc = "launch" /\ calls[c].idx > Len(Dict))
       => CallTask(c) \notin visMutex
  /\ \A p \in DOMAIN probes :
       probes[p].pc = "lock_found" => p \notin calls[p[1]].foundMutex

\* one task holds visMutex and another waits for it while a classification
\* task holds foundMutex and a call waits for its branches
C32_Witness ==
  /\ \E c, k \in DOMAIN calls :
       /\ CallTask(c) \in visMutex
       /\ calls[k].pc \in {"guard_lock", "base_lock"}
  /\ \E p \in DOMAIN probes : p \in calls[p[1]].foundMutex
  /\ \E c \in DOMAIN calls : calls[c].pc = "join" /\ ~AllChildrenDone(c)

\* C33: every key of the baseline cache is in the visited set, the lookup of
\* the baseline cache never finds the base URL, and one probe of a
\* nonexistent path is fetched for each base URL whose page was fetched with
\* a body.
C33_BaselineLookupAlwaysMisses ==
  /\ DOMAIN notFoundCache \subseteq visited
  /\ \A c \in DOMAIN calls :
       calls[c].pc = "base_lookup" => calls[c].url \notin DOMAIN notFoundCache
  /\ \A u \in DOMAIN notFoundCache :
       Cardinality(BaselineProbes(u)) = 1 /\ Cardinality(BaseFetches(u)) = 1
  /\ \A r \in reqs : r.kind = "baseline" => r.base \in DOMAIN notFoundCache
  /\ \A c \in DOMAIN calls :
       calls[c].html # <<>> /\ calls[c].pc \notin {"base_lock", "base_lookup", "base_probe"}
       => Cardinality(BaselineProbes(calls[c].url)) = 1

\* a second call came for a base URL and was turned away, the cache holds
\* other signatures, and the admitted call found no signature for its base
\* URL
C33_Witness ==
  \E c1, c2 \in DOMAIN calls :
    /\ c1 # c2 /\ calls[c1].url = calls[c2].url
    /\ calls[c1].pc = "base_probe" /\ calls[c2].admitted = "no"
    /\ notFoundCache # <<>>

\* C35: every URL an enumeration asks for begins with the scheme and host of
\* the URL the enumeration started from.
C35_CrawlStaysOnHost ==
  RootCall \in DOMAIN calls =>
    \A r \in reqs :
      r.run = runs /\ r.kind \in {"base", "baseline", "probe", "status"} =>
        /\ DomainMatch(r.url) # <<>>
        /\ DomainMatch(r.url) = DomainMatch(calls[RootCall].url)

\* C36: a candidate with a body whose first 512 bytes differ from the
\* baseline signature, and without a meta refresh tag whose target contains
\* the base URL, is put into the found-set whatever its other signals are.
C36_AcceptedOnTwoSignals ==
  \A p \in DOMAIN probes :
    LET c == p[1]
        body == probes[p].body
    IN (/\ Classified(p)
        /\ Substr512(body) # calls[c].notFoundSig
        /\ ~\E i \in 1..Len(body) :
              body[i].kind = "refresh" /\ Contains(body[i].href, calls[c].url))
       => PutInFound(p)

\* C38: the Tab key completes the text before the cursor: without a match
\* the bell rings, a single match is inserted in place of the last word, and
\* several matches lengthen the line or are listed.
C38_TabCompletes ==
  (input.fn = "readKey" /\ input.c = 9 /\ Returned("readKey")) =>
    LET ed == input.ed
        res == Out("readKey")
        prefix == SubSeq(ed.buffer, 1, ed.cursor)
        token == LastToken(prefix)
        completions == getCompletions(prefix)
    IN /\ completions = <<>> => res.bell
       /\ Len(completions) = 1 =>
            res.buffer = SubSeq(prefix, 1, Len(prefix) - Len(token)) \o completions[1]
                           \o SubSeq(ed.buffer, ed.cursor + 1, Len(ed.buffer))
       /\ Len(completions) > 1 =>
            \/ res.listed = completions
            \/ /\ Len(res.buffer) > Len(ed.buffer)
               /\ \A i \in 1..Len(completions) :
                    startsWith(completions[i],
                               SubSeq(res.buffer, ed.cursor - Len(token) + 1, res.cursor))

\* C34: a URL enters the visited set only through a call whose depth is at
\* most its maxDepth; a call with a larger depth returns without touching
\* the set, so that the URL can be enumerated when a later call reaches it at
\* an allowed depth.
C34_VisitedOnlyAtAllowedDepth ==
  [][/\ \A u \in visited' \ visited :
          \E c \in DOMAIN calls :
            /\ calls[c].url = u /\ calls[c].pc = "guard_insert"
            /\ calls[c].depth <= calls[c].maxDepth
     /\ \A c \in DOMAIN calls :
          (calls[c].pc = "guard_check" /\ calls[c].depth > calls[c].maxDepth
           /\ c \in DOMAIN calls' /\ calls'[c] # calls[c])
          => /\ visited' = visited
             /\ calls'[c].admitted = "no" /\ calls'[c].pc = "done"
     /\ \A c \in DOMAIN calls' :
          calls'[c].admitted = "yes" => calls'[c].depth <= calls'[c].maxDepth]_vars

\* docs/ was found by an enum with max_enum_depth 0, which did not fetch it
\* or put it into the visited set; the next enum, started from docs/, admits
\* it
C34_Witness ==
  LET u == combineUrl(RootUrl, docs)
  IN /\ runs = 2 /\ RootCall \in DOMAIN calls
     /\ calls[RootCall].url = u /\ calls[RootCall].admitted = "yes"
     /\ \E l \in out : l.run = 1 /\ l.kind = "dir" /\ l.arg = docs
     /\ \E r \in reqs : r.run = 1 /\ r.kind = "base" /\ r.url = RootUrl /\ r.maxDepth = 0
     /\ ~\E r \in reqs : r.run = 1 /\ r.url = u

\* C37: whatever max_enum_depth and max_list_depth were set to, enum and ld
\* global raise no error that nothing catches.
C37_NoSettingEndsTheProcess ==
  /\ \A c \in DOMAIN calls : calls[c].pc # "uncaught"
  /\ \A c \in DOMAIN lists : lists[c].pc # "uncaught"

\* C39: break global with a URL connected sets gl_path to "n/a" and reports
\* success, without one it reports failure and changes nothing; while gl_path
\* is "n/a" enum and ld global are turned away without a request; gl_path
\* gets a URL again through connect global, set, config set or reload.
C39_BreakGlobalDisconnects ==
  [][/\ (input'.fn = "break" /\ tolower(input'.args) = global) =>
          IF config.gl_path # NotConnected
          THEN /\ config' = [config EXCEPT !.gl_path = NotConnected]
               /\ output' = Ok_(<<>>)
          ELSE /\ config' = config /\ file' = file
               /\ output' = Fail(<<>>)
     /\ (runs' = runs + 1 /\ config.gl_path = NotConnected) =>
          /\ calls' = <<>> /\ lists' = <<>> /\ reqs' = reqs
          /\ \E l \in out' : l.run = runs' /\ l.kind = "NotConnected"
     /\ (config.gl_path = NotConnected /\ config'.gl_path # NotConnected) =>
          /\ input'.fn \in {"connect", "set", "config", "reload"}
          /\ input'.fn = "connect" => output' = Ok_(config'.gl_path)]_vars

\* a URL was connected and enumerated, and break global has just
\* disconnected it
C39_Witness ==
  /\ input.fn = "break" /\ output = Ok_(<<>>)
  /\ config.gl_path = NotConnected
  /\ \E r \in reqs : r.kind = "base"

\* the statement of C39 as it stands: once gl_path is "n/a" only a connect
\* global that succeeds gives it a URL
C39_RejectedUntilConnect ==
  [][(config.gl_path = NotConnected /\ config'.gl_path # NotConnected) =>
       (input'.fn = "connect" /\ output' = Ok_(config'.gl_path))]_vars

=============================================================================
